---- MODULE Spec2Model ----
(***************************************************************************)
(* Stocky backend: the reward recorder, the ledger engine and the price    *)
(* oracle, modelled as a state machine over the three durable relations    *)
(* (reward_events, ledger_entries, price_history) and the generator's      *)
(* in-memory base-price table.                                             *)
(*                                                                         *)
(* Decimals (shopspring decimal.Decimal, PostgreSQL numeric) are exact:    *)
(* a decimal is a record [neg |-> sign, m |-> digits of the coefficient,   *)
(* e |-> fractional digits] standing for +-m / 10^e, kept normalised (no   *)
(* trailing zero digit), so that two decimals are equal as records iff     *)
(* they are equal as numbers.  Time is counted in ticks of TickHours.      *)
(***************************************************************************)
EXTENDS Integers, Sequences, FiniteSets, TLC

(***************************************************************************)
(* Exact decimal arithmetic.  The coefficient of a decimal has no bound    *)
(* (big.Int in shopspring, numeric in PostgreSQL), so it is a sequence of  *)
(* decimal digits, most significant first, without leading zeros.          *)
(***************************************************************************)
RECURSIVE Strip(_)
\* drop leading zero digits
Strip(m) ==
    IF m # <<>> /\ Head(m) = 0 THEN Strip(Tail(m)) ELSE m

Front(m) ==
    SubSeq(m, 1, Len(m) - 1)

Last(m) ==
    m[Len(m)]

RECURSIVE Zeros(_)
Zeros(n) ==
    IF n = 0 THEN <<>> ELSE <<0>> \o Zeros(n - 1)

RECURSIVE Digits(_)
\* the digits of a natural number
Digits(n) ==
    IF n = 0 THEN <<>> ELSE Append(Digits(n \div 10), n % 10)

DigitSeq ==
    Seq(0 .. 9)

\* The recursions over digit sequences are functions, which TLC applies to
\* evaluated arguments.
AddCarry[a \in DigitSeq, b \in DigitSeq, carry \in 0 .. 1] ==
    IF a = <<>> /\ b = <<>>
    THEN (IF carry = 0 THEN <<>> ELSE <<carry>>)
    ELSE LET da == IF a = <<>> THEN 0 ELSE Last(a)
             db == IF b = <<>> THEN 0 ELSE Last(b)
             fa == IF a = <<>> THEN <<>> ELSE Front(a)
             fb == IF b = <<>> THEN <<>> ELSE Front(b)
             t  == da + db + carry
         IN  Append(AddCarry[fa, fb, t \div 10], t % 10)

AddMag(a, b) ==
    AddCarry[a, b, 0]

\* a - b - borrow, digit by digit, for a >= b
SubBorrow[a \in DigitSeq, b \in DigitSeq, borrow \in 0 .. 1] ==
    IF a = <<>> THEN <<>>
    ELSE LET db == IF b = <<>> THEN 0 ELSE Last(b)
             fb == IF b = <<>> THEN <<>> ELSE Front(b)
             t  == Last(a) - db - borrow
         IN  IF t < 0 THEN Append(SubBorrow[Front(a), fb, 1], t + 10)
             ELSE Append(SubBorrow[Front(a), fb, 0], t)

SubMag(a, b) ==
    Strip(SubBorrow[a, b, 0])

MulDigit[a \in DigitSeq, d \in 0 .. 9, carry \in 0 .. 9] ==
    IF a = <<>>
    THEN (IF carry = 0 THEN <<>> ELSE <<carry>>)
    ELSE LET t == Last(a) * d + carry
         IN  Append(MulDigit[Front(a), d, t \div 10], t % 10)

MulMag[a \in DigitSeq, b \in DigitSeq] ==
    IF a = <<>> \/ b = <<>> THEN <<>>
    ELSE AddMag(Strip(MulDigit[a, Last(b), 0]),
                Strip(MulMag[a, Front(b)] \o <<0>>))

RECURSIVE LexLess(_, _)
\* a < b for digit sequences of the same length
LexLess(a, b) ==
    IF a = <<>> THEN FALSE
    ELSE IF Head(a) # Head(b) THEN Head(a) < Head(b)
    ELSE LexLess(Tail(a), Tail(b))

LessMag(a, b) ==
    \/ Len(a) < Len(b)
    \/ Len(a) = Len(b) /\ LexLess(a, b)

Zero ==
    [neg |-> FALSE, m |-> <<>>, e |-> 0]

RECURSIVE Norm(_)
\* the canonical form: no trailing zero among the fractional digits
Norm(d) ==
    IF d.m = <<>> THEN Zero
    ELSE IF d.e > 0 /\ Last(d.m) = 0 THEN Norm([d EXCEPT !.m = Front(@), !.e = @ - 1])
    ELSE d

\* the decimal c / 10^e of an integer c
Dec(c, e) ==
    Norm([neg |-> c < 0, m |-> Digits(IF c < 0 THEN -c ELSE c), e |-> e])

MaxOf(a, b) ==
    IF a >= b THEN a ELSE b

\* the coefficient of a at e fractional digits (e >= a.e)
Scaled(a, e) ==
    IF a.m = <<>> THEN <<>> ELSE a.m \o Zeros(e - a.e)

Mul(a, b) ==
    Norm([neg |-> a.neg # b.neg, m |-> MulMag[a.m, b.m], e |-> a.e + b.e])

Add(a, b) ==
    LET e  == MaxOf(a.e, b.e)
        ma == Scaled(a, e)
        mb == Scaled(b, e)
    IN  IF a.neg = b.neg
        THEN Norm([neg |-> a.neg, m |-> AddMag(ma, mb), e |-> e])
        ELSE IF LessMag(ma, mb)
        THEN Norm([neg |-> b.neg, m |-> SubMag(mb, ma), e |-> e])
        ELSE Norm([neg |-> a.neg, m |-> SubMag(ma, mb), e |-> e])

Neg(a) ==
    IF a.m = <<>> THEN a ELSE [a EXCEPT !.neg = ~@]

GreaterThan(a, b) ==
    LET e  == MaxOf(a.e, b.e)
        ma == Scaled(a, e)
        mb == Scaled(b, e)
    IN  IF a.neg /\ b.neg THEN LessMag(ma, mb)
        ELSE IF a.neg THEN FALSE
        ELSE IF b.neg THEN TRUE
        ELSE LessMag(mb, ma)

LessThanOrEqual(a, b) ==
    ~GreaterThan(a, b)

\* decimal.Round(places): round half away from zero
Round(a, places) ==
    IF a.e <= places THEN a
    ELSE LET k    == a.e - places
             kept == IF Len(a.m) > k THEN SubSeq(a.m, 1, Len(a.m) - k) ELSE <<>>
             next == IF Len(a.m) >= k THEN a.m[Len(a.m) - k + 1] ELSE 0
         IN  Norm([neg |-> a.neg,
                   m   |-> IF next >= 5 THEN AddMag(kept, <<1>>) ELSE kept,
                   e   |-> places])

RoundINR(amount) ==
    Round(amount, 4)

\* variant: quantities keep 7 fractional digits
RoundQuantity_SevenDigits(quantity) ==
    Round(quantity, 7)

RoundQuantity(quantity) ==
    Round(quantity, 6)

(***************************************************************************)
(* Fees (utils.CalculateFees)                                              *)
(***************************************************************************)
BrokerageRate ==
    Dec(3, 4)

MaxBrokerage ==
    Dec(20, 0)

SttRate ==
    Dec(1, 3)

GstRate ==
    Dec(18, 2)

\* variant: the total is taken over the components already rounded
CalculateFees_RoundedFirst(pricePerShare, quantity) ==
    LET totalValue == Mul(pricePerShare, quantity)
        raw        == Mul(totalValue, BrokerageRate)
        brokerage  == Round(IF GreaterThan(raw, MaxBrokerage) THEN MaxBrokerage ELSE raw, 4)
        stt        == Round(Mul(totalValue, SttRate), 4)
        gst        == Round(Mul(IF GreaterThan(raw, MaxBrokerage) THEN MaxBrokerage
                                ELSE raw, GstRate), 4)
    IN  [brokerage |-> brokerage, stt |-> stt, gst |-> gst,
         total |-> Round(Add(Add(brokerage, stt), gst), 4)]

\* variant: GST is left out of the total
CalculateFees_NoGstInTotal(pricePerShare, quantity) ==
    LET totalValue == Mul(pricePerShare, quantity)
        raw        == Mul(totalValue, BrokerageRate)
        brokerage  == IF GreaterThan(raw, MaxBrokerage) THEN MaxBrokerage ELSE raw
        stt        == Mul(totalValue, SttRate)
        gst        == Mul(brokerage, GstRate)
    IN  [brokerage |-> Round(brokerage, 4), stt |-> Round(stt, 4),
         gst |-> Round(gst, 4), total |-> Round(Add(brokerage, stt), 4)]

\* variant: the brokerage is not capped
CalculateFees_NoCap(pricePerShare, quantity) ==
    LET totalValue == Mul(pricePerShare, quantity)
        brokerage  == Mul(totalValue, BrokerageRate)
        stt        == Mul(totalValue, SttRate)
        gst        == Mul(brokerage, GstRate)
    IN  [brokerage |-> Round(brokerage, 4), stt |-> Round(stt, 4),
         gst |-> Round(gst, 4), total |-> Round(Add(Add(brokerage, stt), gst), 4)]

CalculateFees(pricePerShare, quantity) ==
    LET totalValue == Mul(pricePerShare, quantity)
        raw        == Mul(totalValue, BrokerageRate)
        brokerage  == IF GreaterThan(raw, MaxBrokerage) THEN MaxBrokerage ELSE raw
        stt        == Mul(totalValue, SttRate)
        gst        == Mul(brokerage, GstRate)
        total      == Add(Add(brokerage, stt), gst)
    IN  [brokerage |-> Round(brokerage, 4),
         stt       |-> Round(stt, 4),
         gst       |-> Round(gst, 4),
         total     |-> Round(total, 4)]

MaxQuantity ==
    Dec(10000, 0)

ValidateQuantity(quantity) ==
    /\ ~LessThanOrEqual(quantity, Zero)
    /\ ~GreaterThan(quantity, MaxQuantity)

MaxSymbolLen ==
    20

ValidateStockSymbol(symbol) ==
    ~(Len(symbol) = 0 \/ Len(symbol) > MaxSymbolLen)

(***************************************************************************)
(* Bounds and inputs of the model                                          *)
(***************************************************************************)
MaxCalls ==
    2

MaxTime ==
    2

MaxReversals ==
    2

Procs ==
    {"w1", "w2"}

\* the requests the HTTP layer hands to RewardController.CreateReward
Requests ==
    { [userId |-> 1, symbol |-> "RELIANCE", quantity |-> Dec(25, 1),       timestamp |-> 1],
      [userId |-> 1, symbol |-> "RELIANCE", quantity |-> Dec(25000001, 7), timestamp |-> 1],
      [userId |-> 1, symbol |-> "RELIANCE", quantity |-> Dec(3333, 4),     timestamp |-> 0],
      [userId |-> 1, symbol |-> "RELIANCE", quantity |-> Dec(10001, 0),    timestamp |-> 1],
      [userId |-> 1, symbol |-> "RELIANCE", quantity |-> Dec(4, 7),        timestamp |-> 1],
      [userId |-> 1, symbol |-> "",         quantity |-> Dec(25, 1),       timestamp |-> 1] }

\* rng.Float64()*10 - 5, divided by 100: the relative variation of a generated price
Variations ==
    { Zero, Dec(3333, 5) }

StaleHours ==
    2

\* the length of one tick of the model's clock, in hours
TickHours ==
    2

None ==
    [id |-> 0]

VARIABLES
    reward_events,   \* committed rows of reward_events
    ledger_entries,  \* committed rows of ledger_entries
    price_history,   \* committed rows of price_history
    basePrices,      \* PriceGenerator.basePrices
    seq,             \* the serial primary-key sequences of the three tables
    now,             \* the wall clock, in ticks of TickHours hours
    call,            \* per worker: the CreateReward request it is handling
    response,        \* the latest response of RewardController.CreateReward
    calls,           \* number of requests received so far
    reversals,       \* number of reversals made so far
    fee,             \* a call of utils.CalculateFees: its arguments and its result
    query,           \* the aggregator query in progress, or the latest one made
    stock_config,    \* rows of stock_config: the multiplier of each symbol
    schedulerBasePrices,  \* basePrices of the PriceGenerator of main's PriceService
    saving           \* per PriceService: the SavePrice call it is inside

vars ==
    <<reward_events, ledger_entries, price_history, basePrices, seq, now, call,
      response, calls, reversals, fee, query, stock_config, schedulerBasePrices, saving>>

\* NewPriceGenerator: the base prices seeded at startup
NewPriceGenerator ==
    [symbol \in {"RELIANCE", "TCS"} |->
        IF symbol = "RELIANCE" THEN Dec(245050, 2) ELSE Dec(368075, 2)]

DefaultBasePrice ==
    Dec(1000, 0)

\* the two PriceService objects of the process: the one of SetupRouter, used
\* by the request path, and the one of main, used by the scheduler
PriceServices ==
    {"request", "scheduler"}

IdleSave ==
    [pc |-> "idle", symbol |-> "", price |-> Zero, timestamp |-> 0,
     prices |-> [s \in {} |-> Zero], todo |-> {}]

NoSaving ==
    [service \in PriceServices |-> IdleSave]

IdleCall ==
    [pc |-> "idle", userId |-> 0, symbol |-> "", quantity |-> Zero, timestamp |-> 0,
     pricePerShare |-> Zero, txReward |-> None, txEntries |-> {}, saved |-> 0]

\* no response yet
NoResponse ==
    [status |-> 0, err |-> "",
     written |-> [rewards |-> 0, entries |-> 0, prices |-> 0]]

NoFees ==
    [brokerage |-> Zero, stt |-> Zero, gst |-> Zero, total |-> Zero]

NoFee ==
    [pricePerShare |-> Zero, quantity |-> Zero, applied |-> FALSE, result |-> NoFees]

\* initializeStockConfigs: every seeded symbol has multiplier 1.0
InitialStockConfig ==
    [symbol \in {"RELIANCE", "TCS"} |-> Dec(1, 0)]

\* no aggregator query was made yet; priced and swallowed record the reads the
\* query made: the prices it was given and the failed reads it went on after
NoQuery ==
    [kind |-> "", pc |-> "done", userId |-> 0, day |-> 0, last |-> 0,
     holdings |-> << >>, todo |-> {}, totalValue |-> Zero, items |-> {},
     rewards |-> << >>, todayRewards |-> << >>, days |-> << >>, err |-> FALSE,
     priced |-> {}, swallowed |-> {}]

Init ==
    /\ reward_events = {}
    /\ ledger_entries = {}
    /\ price_history = {}
    /\ basePrices = NewPriceGenerator
    /\ seq = [reward |-> 0, ledger |-> 0, price |-> 0]
    /\ now = 0
    /\ call = [p \in Procs |-> IdleCall]
    /\ response = NoResponse
    /\ calls = 0
    /\ reversals = 0
    /\ fee = NoFee
    /\ query = NoQuery
    /\ stock_config = InitialStockConfig
    /\ schedulerBasePrices = NewPriceGenerator
    /\ saving = NoSaving

(***************************************************************************)
(* Queries and storage rules                                               *)
(***************************************************************************)
\* variant: the duplicate query never finds a row
FindDuplicate_NoCheck(userId, symbol, quantity, timestamp) ==
    {}

\* live rows matching the deduplication key (gorm adds deleted_at IS NULL)
FindDuplicate(userId, symbol, quantity, timestamp) ==
    { r \in reward_events :
        /\ r.userId = userId
        /\ r.symbol = symbol
        /\ r.quantity = quantity
        /\ r.timestamp = timestamp
        /\ ~r.deleted }

SameKey(r1, r2) ==
    /\ r1.userId = r2.userId
    /\ r1.symbol = r2.symbol
    /\ r1.quantity = r2.quantity
    /\ r1.timestamp = r2.timestamp

\* variant: the unique index is missing
UniqueViolation_NoIndex(row) ==
    FALSE

\* idx_reward_dedup: the partial unique index on live rows
UniqueViolation(row) ==
    \E r \in reward_events : ~r.deleted /\ ~row.deleted /\ SameKey(r, row)

\* an insert waits while another open transaction holds an uncommitted row
\* with the same key of the unique index
BlockedByPending(p, row) ==
    \E q \in Procs \ {p} :
        /\ call[q].txReward # None
        /\ SameKey(call[q].txReward, row)

\* variant: First without the ORDER BY: any row of the symbol
LatestPrices_Unordered(symbol) ==
    { h \in price_history : h.symbol = symbol }

\* ORDER BY timestamp DESC, First: the rows of the symbol with the greatest timestamp
LatestPrices(symbol) ==
    { h \in price_history :
        /\ h.symbol = symbol
        /\ \A g \in price_history : g.symbol = symbol => g.timestamp <= h.timestamp }

\* variant: a sample counts as recent for twice as long
IsStale_FourHours(h) ==
    (now - h.timestamp) * TickHours > 2 * StaleHours

\* time.Since(priceHistory.Timestamp) > 2*time.Hour
IsStale(h) ==
    (now - h.timestamp) * TickHours > StaleHours

GeneratePrice(base, variation) ==
    Round(Mul(base, Add(Dec(1, 0), variation)), 4)

BaseOf(symbol) ==
    IF symbol \in DOMAIN basePrices THEN basePrices[symbol] ELSE DefaultBasePrice

\* basePrices after GeneratePrice(symbol): an unknown symbol gets the default
WithDefault(symbol) ==
    IF symbol \in DOMAIN basePrices THEN basePrices
    ELSE [s \in DOMAIN basePrices \cup {symbol} |->
            IF s = symbol THEN DefaultBasePrice ELSE basePrices[s]]

\* UpdateBasePrice on a table
UpdateBasePrice(table, symbol, newPrice) ==
    [s \in DOMAIN table \cup {symbol} |-> IF s = symbol THEN newPrice ELSE table[s]]

(***************************************************************************)
(* Price oracle                                                            *)
(***************************************************************************)
\* variant: the new sample replaces the samples of the symbol
SavePrice_Replacing(table, symbol, price) ==
    [history |-> { h \in price_history : h.symbol # symbol } \cup
                    {[id |-> seq.price + 1, symbol |-> symbol,
                      priceINR |-> RoundINR(price), timestamp |-> now]},
     base    |-> UpdateBasePrice(table, symbol, price),
     seq     |-> seq.price + 1,
     saved   |-> 1]

\* SavePrice followed by UpdateBasePrice, on a generator table
SavePrice(table, symbol, price) ==
    [history |-> price_history \cup
                    {[id |-> seq.price + 1, symbol |-> symbol,
                      priceINR |-> RoundINR(price), timestamp |-> now]},
     base    |-> UpdateBasePrice(table, symbol, price),
     seq     |-> seq.price + 1,
     saved   |-> 1]

\* variant: the base price is moved before the sample is inserted
GenerateAndSave_BaseFirst(symbol) ==
    { [ok |-> TRUE, generated |-> TRUE, price |-> GeneratePrice(BaseOf(symbol), v)] @@
      (IF saveOk
       THEN SavePrice(WithDefault(symbol), symbol, GeneratePrice(BaseOf(symbol), v))
       ELSE [history |-> price_history,
             base |-> UpdateBasePrice(WithDefault(symbol), symbol,
                                      GeneratePrice(BaseOf(symbol), v)),
             seq |-> seq.price, saved |-> 0])
      : v \in Variations, saveOk \in BOOLEAN }

\* the generated price is returned whether or not saving it succeeded;
\* generated records that the price was synthesized by this call
GenerateAndSave(symbol) ==
    { [ok |-> TRUE, generated |-> TRUE, price |-> GeneratePrice(BaseOf(symbol), v)] @@
      (IF saveOk
       THEN SavePrice(WithDefault(symbol), symbol, GeneratePrice(BaseOf(symbol), v))
       ELSE [history |-> price_history, base |-> WithDefault(symbol),
             seq |-> seq.price, saved |-> 0])
      : v \in Variations, saveOk \in BOOLEAN }

\* the possible outcomes of PriceService.GetCurrentPrice(symbol) in this state
GetCurrentPrice(symbol) ==
    LET unchanged == [history |-> price_history, base |-> basePrices,
                      seq |-> seq.price, saved |-> 0]
    IN  \* the query fails with an error other than record-not-found
        { [ok |-> FALSE, generated |-> FALSE, price |-> Zero] @@ unchanged }
        \cup
        (IF LatestPrices(symbol) = {}
         THEN GenerateAndSave(symbol)
         ELSE UNION { IF IsStale(h)
                      THEN GenerateAndSave(symbol)
                      ELSE { [ok |-> TRUE, generated |-> FALSE, price |-> h.priceINR]
                             @@ unchanged }
                      : h \in LatestPrices(symbol) })

\* variant: ORDER BY timestamp ASC
PricesAt_Earliest(symbol, timestamp) ==
    { h \in price_history :
        /\ h.symbol = symbol
        /\ h.timestamp <= timestamp
        /\ \A g \in price_history :
             (g.symbol = symbol /\ g.timestamp <= timestamp) => h.timestamp <= g.timestamp }

\* stock_symbol = ? AND timestamp <= ?, ORDER BY timestamp DESC, First
PricesAt(symbol, timestamp) ==
    { h \in price_history :
        /\ h.symbol = symbol
        /\ h.timestamp <= timestamp
        /\ \A g \in price_history :
             (g.symbol = symbol /\ g.timestamp <= timestamp) => g.timestamp <= h.timestamp }

\* the possible outcomes of PriceService.GetPriceAtTime(symbol, timestamp)
GetPriceAtTime(symbol, timestamp) ==
    LET unchanged == [history |-> price_history, base |-> basePrices,
                      seq |-> seq.price, saved |-> 0]
    IN  \* the query fails with an error other than record-not-found
        { [ok |-> FALSE, generated |-> FALSE, price |-> Zero] @@ unchanged }
        \cup
        (IF PricesAt(symbol, timestamp) = {}
         THEN GetCurrentPrice(symbol)
         ELSE { [ok |-> TRUE, generated |-> FALSE, price |-> h.priceINR] @@ unchanged
                : h \in PricesAt(symbol, timestamp) })

(***************************************************************************)
(* Ledger engine                                                           *)
(***************************************************************************)
\* variant: the CASH leg is not negated
LedgerEntriesFor_CashPositive(rewardEvent, pricePerShare, base) ==
    LET totalValue == RoundINR(Mul(pricePerShare, rewardEvent.quantity))
        totalFees  == CalculateFees(pricePerShare, rewardEvent.quantity).total
    IN  { [id |-> base + 1, rewardEventId |-> rewardEvent.id, entryType |-> "STOCK",
           symbol |-> rewardEvent.symbol, quantity |-> rewardEvent.quantity,
           amountINR |-> totalValue, timestamp |-> rewardEvent.timestamp],
          [id |-> base + 2, rewardEventId |-> rewardEvent.id, entryType |-> "CASH",
           symbol |-> rewardEvent.symbol, quantity |-> Zero,
           amountINR |-> totalValue, timestamp |-> rewardEvent.timestamp],
          [id |-> base + 3, rewardEventId |-> rewardEvent.id, entryType |-> "FEE",
           symbol |-> rewardEvent.symbol, quantity |-> Zero,
           amountINR |-> Neg(totalFees), timestamp |-> rewardEvent.timestamp] }

\* the three entries of createLedgerEntriesInTx, with primary keys base+1..base+3
LedgerEntriesFor(rewardEvent, pricePerShare, base) ==
    LET totalValue == RoundINR(Mul(pricePerShare, rewardEvent.quantity))
        totalFees  == CalculateFees(pricePerShare, rewardEvent.quantity).total
    IN  { [id |-> base + 1, rewardEventId |-> rewardEvent.id, entryType |-> "STOCK",
           symbol |-> rewardEvent.symbol, quantity |-> rewardEvent.quantity,
           amountINR |-> totalValue, timestamp |-> rewardEvent.timestamp],
          [id |-> base + 2, rewardEventId |-> rewardEvent.id, entryType |-> "CASH",
           symbol |-> rewardEvent.symbol, quantity |-> Zero,
           amountINR |-> Neg(totalValue), timestamp |-> rewardEvent.timestamp],
          [id |-> base + 3, rewardEventId |-> rewardEvent.id, entryType |-> "FEE",
           symbol |-> rewardEvent.symbol, quantity |-> Zero,
           amountINR |-> Neg(totalFees), timestamp |-> rewardEvent.timestamp] }

\* variant: only the three rows created with the grant are fetched
EntriesOf_OriginalsOnly(rewardEventId) ==
    { e \in ledger_entries :
        /\ e.rewardEventId = rewardEventId
        /\ Cardinality({ o \in ledger_entries :
                           o.rewardEventId = rewardEventId /\ o.id <= e.id }) <= 3 }

EntriesOf(rewardEventId) ==
    { e \in ledger_entries : e.rewardEventId = rewardEventId }

\* variant: the reversal negates the quantity but not the amount
ReversalOf_QuantityOnly(entry, id) ==
    [id |-> id, rewardEventId |-> entry.rewardEventId, entryType |-> entry.entryType,
     symbol |-> entry.symbol, quantity |-> Neg(entry.quantity),
     amountINR |-> entry.amountINR, timestamp |-> now]

\* variant: the reversal row keeps the timestamp of the row it negates
ReversalOf_OriginalTime(entry, id) ==
    [id |-> id, rewardEventId |-> entry.rewardEventId, entryType |-> entry.entryType,
     symbol |-> entry.symbol, quantity |-> Neg(entry.quantity),
     amountINR |-> Neg(entry.amountINR), timestamp |-> entry.timestamp]

\* one reversal row of CreateReversalEntries
ReversalOf(entry, id) ==
    [id |-> id, rewardEventId |-> entry.rewardEventId, entryType |-> entry.entryType,
     symbol |-> entry.symbol, quantity |-> Neg(entry.quantity),
     amountINR |-> Neg(entry.amountINR), timestamp |-> now]

\* position of an entry among the fetched rows (primary-key order)
RankIn(entry, entries) ==
    Cardinality({ e \in entries : e.id <= entry.id })

\* sum of field f (a decimal) over a set of rows of one table, in primary-key order
SumOf(rows, f) ==
    LET ids == { r.id : r \in rows }
        top == IF ids = {} THEN 0 ELSE CHOOSE i \in ids : \A j \in ids : j <= i
        sum[n \in 0 .. top] ==
            IF n = 0 THEN Zero
            ELSE IF n \in ids THEN Add(sum[n - 1], (CHOOSE r \in rows : r.id = n)[f])
            ELSE sum[n - 1]
    IN  sum[top]

\* variant: the rows are not restricted to the grants of the user
StockRows_AnyUser(rewards, entries, userId, symbol) ==
    { e \in entries :
        /\ e.entryType = "STOCK"
        /\ e.symbol = symbol
        /\ \E r \in rewards : r.id = e.rewardEventId /\ ~r.deleted }

\* the STOCK rows of a symbol that belong to live grants of the user
StockRows(rewards, entries, userId, symbol) ==
    { e \in entries :
        /\ e.entryType = "STOCK"
        /\ e.symbol = symbol
        /\ \E r \in rewards :
             r.id = e.rewardEventId /\ r.userId = userId /\ ~r.deleted }

\* variant: HAVING SUM(le.quantity) >= 0
Holdings_NonNegative(rewards, entries, userId) ==
    LET symbols  == { e.symbol : e \in entries }
        total(s) == SumOf(StockRows(rewards, entries, userId, s), "quantity")
        positive == { s \in symbols : ~GreaterThan(Zero, total(s)) }
    IN  [s \in positive |-> total(s)]

\* the holdings query on given tables: symbol -> SUM(quantity), HAVING SUM > 0
Holdings(rewards, entries, userId) ==
    LET symbols  == { e.symbol : e \in entries }
        total(s) == SumOf(StockRows(rewards, entries, userId, s), "quantity")
        positive == { s \in symbols : GreaterThan(total(s), Zero) }
    IN  [s \in positive |-> total(s)]

GetUserStockHoldings(userId) ==
    Holdings(reward_events, ledger_entries, userId)

(***************************************************************************)
(* Reward recorder: RewardController.CreateReward / RewardService.CreateReward *)
(***************************************************************************)
DuplicateMessage ==
    "duplicate reward: identical reward already exists"

UniqueViolationMessage ==
    "failed to create reward event: duplicate key value violates unique constraint"

\* the controller's mapping of the service's error to an HTTP status
StatusOf(err) ==
    IF err = "" THEN 200
    ELSE IF err = DuplicateMessage THEN 409
    ELSE 500

\* variant: the grant was created outside the transaction and survives the rollback
Rollback_KeepsReward(c) ==
    [rewards |-> IF c.txReward = None THEN {} ELSE {c.txReward}, entries |-> {}]

\* the rows of an open transaction that are durable after tx.Rollback()
Rollback(c) ==
    [rewards |-> {}, entries |-> {}]

\* variant: the entries were not created in the transaction and are lost
Commit_GrantOnly(c) ==
    [rewards |-> {c.txReward}, entries |-> {}]

\* the rows of an open transaction that are durable after tx.Commit()
Commit(c) ==
    [rewards |-> {c.txReward}, entries |-> c.txEntries]

\* the response to a call that returned err; written counts the rows the call
\* has made durable (saved: the price samples saved by its price lookup)
Respond(c, err, durable) ==
    [status  |-> StatusOf(err),
     err     |-> err,
     written |-> [rewards |-> Cardinality(durable.rewards),
                  entries |-> Cardinality(durable.entries),
                  prices  |-> c.saved]]

\* ShouldBindJSON with the binding tags of CreateRewardRequest
BindJSON(req) ==
    /\ req.userId # 0
    /\ req.symbol # ""
    /\ GreaterThan(req.quantity, Zero)

\* variant: the price is looked up before the duplicate check
After_PriceFirst(pc) ==
    CASE pc = "idle"   -> "price"
      [] pc = "price"  -> "check"
      [] pc = "check"  -> "begin"
      [] pc = "begin"  -> "ledger"
      [] pc = "ledger" -> "commit"

\* the order of the steps of CreateReward: the step that follows the one at
\* pc when that one succeeds (validation, duplicate check, price lookup,
\* tx.Create, createLedgerEntriesInTx, tx.Commit)
After(pc) ==
    CASE pc = "idle"   -> "check"
      [] pc = "check"  -> "price"
      [] pc = "price"  -> "begin"
      [] pc = "begin"  -> "ledger"
      [] pc = "ledger" -> "commit"

Request(p, req) ==
    /\ call[p].pc = "idle"
    /\ calls < MaxCalls
    /\ calls' = calls + 1
    /\ LET c == [IdleCall EXCEPT !.userId = req.userId, !.symbol = req.symbol,
                                 !.quantity = RoundQuantity(req.quantity),
                                 !.timestamp = req.timestamp]
       IN  IF ~BindJSON(req)
           THEN /\ response' = [NoResponse EXCEPT !.status = 400,
                                                  !.err = "Invalid request payload"]
                /\ UNCHANGED call
           ELSE IF ~ValidateStockSymbol(req.symbol)
           THEN /\ response' = Respond(c, "invalid stock symbol", Rollback(c))
                /\ UNCHANGED call
           ELSE IF ~ValidateQuantity(req.quantity)
           THEN /\ response' = Respond(c, "invalid quantity", Rollback(c))
                /\ UNCHANGED call
           ELSE /\ call' = [call EXCEPT ![p] = [c EXCEPT !.pc = After("idle")]]
                /\ UNCHANGED response
    /\ UNCHANGED <<reward_events, ledger_entries, price_history, basePrices, seq,
                   now, reversals, fee, query, stock_config, schedulerBasePrices, saving>>

\* variant: the call returns with its transaction still open
Return_TxLeftOpen(p, err, durable) ==
    /\ call' = [call EXCEPT ![p] = [IdleCall EXCEPT !.txReward = call[p].txReward,
                                                    !.txEntries = call[p].txEntries]]
    /\ response' = Respond(call[p], err, durable)

\* the call of worker p returns err
Return(p, err, durable) ==
    /\ call' = [call EXCEPT ![p] = IdleCall]
    /\ response' = Respond(call[p], err, durable)

CheckDuplicate(p) ==
    /\ call[p].pc = "check"
    /\ \/ Return(p, "failed to check for duplicates", Rollback(call[p]))
       \/ IF FindDuplicate(call[p].userId, call[p].symbol, call[p].quantity,
                           call[p].timestamp) # {}
          THEN Return(p, DuplicateMessage, Rollback(call[p]))
          ELSE /\ call' = [call EXCEPT ![p].pc = After("check")]
               /\ UNCHANGED response
    /\ UNCHANGED <<reward_events, ledger_entries, price_history, basePrices, seq,
                   now, calls, reversals, fee, query, stock_config, schedulerBasePrices, saving>>

\* s.priceService.GetCurrentPrice(stockSymbol): it fails and the call
\* returns, or it gives a price and the call goes on
PriceLookup(p) ==
    /\ call[p].pc = "price"
    /\ \/ /\ Return(p, "failed to get stock price", Rollback(call[p]))
          /\ UNCHANGED <<price_history, basePrices, seq>>
       \/ \E o \in GetCurrentPrice(call[p].symbol) :
            /\ o.ok
            /\ price_history' = o.history
            /\ basePrices' = o.base
            /\ seq' = [seq EXCEPT !.price = o.seq]
            /\ call' = [call EXCEPT ![p].pc = After("price"),
                                    ![p].pricePerShare = o.price,
                                    ![p].saved = o.saved]
            /\ UNCHANGED response
    /\ UNCHANGED <<reward_events, ledger_entries, now, calls, reversals, fee, query, stock_config, schedulerBasePrices, saving>>

NewRewardEvent(c) ==
    [id |-> seq.reward + 1, userId |-> c.userId, symbol |-> c.symbol,
     quantity |-> c.quantity, timestamp |-> c.timestamp, deleted |-> FALSE]

\* db.DB.Begin() and tx.Create(&rewardEvent)
TxCreateReward(p) ==
    /\ call[p].pc = "begin"
    /\ \/ /\ Return(p, "failed to create reward event", Rollback(call[p]))
          /\ UNCHANGED seq
       \/ /\ ~BlockedByPending(p, NewRewardEvent(call[p]))
          /\ seq' = [seq EXCEPT !.reward = @ + 1]
          /\ IF UniqueViolation(NewRewardEvent(call[p]))
             THEN Return(p, UniqueViolationMessage, Rollback(call[p]))
             ELSE /\ call' = [call EXCEPT ![p].pc = After("begin"),
                                          ![p].txReward = NewRewardEvent(call[p])]
                  /\ UNCHANGED response
    /\ UNCHANGED <<reward_events, ledger_entries, price_history, basePrices, now,
                   calls, reversals, fee, query, stock_config, schedulerBasePrices, saving>>

\* createLedgerEntriesInTx
TxCreateLedger(p) ==
    /\ call[p].pc = "ledger"
    /\ \/ /\ Return(p, "failed to create ledger entries", Rollback(call[p]))
          /\ reward_events' = reward_events \cup Rollback(call[p]).rewards
          /\ ledger_entries' = ledger_entries \cup Rollback(call[p]).entries
          /\ UNCHANGED seq
       \/ /\ call' = [call EXCEPT ![p].pc = After("ledger"),
                                  ![p].txEntries = LedgerEntriesFor(call[p].txReward,
                                                    call[p].pricePerShare, seq.ledger)]
          /\ seq' = [seq EXCEPT !.ledger = @ + 3]
          /\ UNCHANGED <<reward_events, ledger_entries, response>>
    /\ UNCHANGED <<price_history, basePrices, now, calls, reversals, fee, query, stock_config, schedulerBasePrices, saving>>

\* tx.Commit()
TxCommit(p) ==
    /\ call[p].pc = "commit"
    /\ \E durable \in {Rollback(call[p]), Commit(call[p])} :
         /\ reward_events' = reward_events \cup durable.rewards
         /\ ledger_entries' = ledger_entries \cup durable.entries
         /\ Return(p, IF durable = Commit(call[p])
                      THEN "" ELSE "failed to commit transaction", durable)
    /\ UNCHANGED <<price_history, basePrices, seq, now, calls, reversals, fee, query, stock_config, schedulerBasePrices, saving>>

(***************************************************************************)
(* LedgerService.CreateReversalEntries                                     *)
(***************************************************************************)
CreateReversalEntries(rewardEvent) ==
    /\ reversals < MaxReversals
    /\ reversals' = reversals + 1
    /\ LET originalEntries == EntriesOf(rewardEvent.id)
       IN  \/ UNCHANGED <<ledger_entries, seq>>
           \/ /\ originalEntries # {}
              /\ ledger_entries' = ledger_entries \cup
                    { ReversalOf(e, seq.ledger + RankIn(e, originalEntries))
                      : e \in originalEntries }
              /\ seq' = [seq EXCEPT !.ledger = @ + Cardinality(originalEntries)]
    /\ UNCHANGED <<reward_events, price_history, basePrices, now, call, response,
                   calls, fee, query, stock_config, schedulerBasePrices, saving>>

Tick ==
    /\ now < MaxTime
    /\ now' = now + 1
    /\ UNCHANGED <<reward_events, ledger_entries, price_history, basePrices, seq,
                   call, response, calls, reversals, fee, query, stock_config, schedulerBasePrices, saving>>

Next ==
    \/ \E p \in Procs, req \in Requests : Request(p, req)
    \/ \E p \in Procs : CheckDuplicate(p)
    \/ \E p \in Procs : PriceLookup(p)
    \/ \E p \in Procs : TxCreateReward(p)
    \/ \E p \in Procs : TxCreateLedger(p)
    \/ \E p \in Procs : TxCommit(p)
    \/ \E r \in reward_events : CreateReversalEntries(r)
    \/ Tick

Spec ==
    Init /\ [][Next]_vars

\* the next statement of the call of worker p
Proceed(p) ==
    \/ CheckDuplicate(p)
    \/ PriceLookup(p)
    \/ TxCreateReward(p)
    \/ TxCreateLedger(p)
    \/ TxCommit(p)

\* every call in progress is scheduled, and every statement of it returns
Fairness ==
    \A p \in Procs : WF_vars(Proceed(p))

FairSpec ==
    Spec /\ Fairness

(***************************************************************************)
(* RewardController.CreateReward, one request at a time                    *)
(***************************************************************************)
LongSymbol ==
    "ABCDEFGHIJKLMNOPQRSTU"

\* the requests made one at a time
RecorderRequests ==
    { [userId |-> 1,     symbol |-> "RELIANCE", quantity |-> Dec(25, 1),       timestamp |-> 1],
      [userId |-> 1,     symbol |-> "RELIANCE", quantity |-> Dec(25000001, 7), timestamp |-> 1],
      [userId |-> 1,     symbol |-> "RELIANCE", quantity |-> Dec(25000005, 7), timestamp |-> 1],
      [userId |-> 1,     symbol |-> "RELIANCE", quantity |-> Dec(2500001, 6),  timestamp |-> 1],
      [userId |-> 1,     symbol |-> "RELIANCE", quantity |-> Dec(25, 1),       timestamp |-> 0],
      [userId |-> 0 - 1, symbol |-> "RELIANCE", quantity |-> Dec(25, 1),       timestamp |-> 1],
      [userId |-> 0,     symbol |-> "RELIANCE", quantity |-> Dec(25, 1),       timestamp |-> 1],
      [userId |-> 1,     symbol |-> "reliance", quantity |-> Dec(25, 1),       timestamp |-> 1],
      [userId |-> 1,     symbol |-> LongSymbol, quantity |-> Dec(25, 1),       timestamp |-> 1],
      [userId |-> 1,     symbol |-> "",         quantity |-> Dec(25, 1),       timestamp |-> 1],
      [userId |-> 1,     symbol |-> "RELIANCE", quantity |-> Dec(10001, 0),    timestamp |-> 1],
      [userId |-> 1,     symbol |-> "RELIANCE", quantity |-> Neg(Dec(5, 0)),   timestamp |-> 1] }

\* a panic in tx.Create, createLedgerEntriesInTx or tx.Commit: the deferred
\* function recovers and rolls the transaction back, and CreateReward, whose
\* result is unnamed, returns the zero value of error
Panic(p) ==
    /\ call[p].pc \in {"begin", "ledger", "commit"}
    /\ Return(p, "", Rollback(call[p]))
    /\ UNCHANGED <<reward_events, ledger_entries, price_history, basePrices, seq,
                   now, calls, reversals, fee, query, stock_config, schedulerBasePrices, saving>>

RecorderNext ==
    \/ \E req \in RecorderRequests : Request("w1", req)
    \/ CheckDuplicate("w1")
    \/ PriceLookup("w1")
    \/ TxCreateReward("w1")
    \/ TxCreateLedger("w1")
    \/ TxCommit("w1")
    \/ Panic("w1")
    \/ Tick

RecorderSpec ==
    Init /\ [][RecorderNext]_vars

(***************************************************************************)
(* The hourly price update scheduler next to the request path              *)
(***************************************************************************)
MaxSamples ==
    3

\* the request made while the scheduler runs
SchedulerRequests ==
    { [userId |-> 1, symbol |-> "RELIANCE", quantity |-> Dec(25, 1), timestamp |-> 1] }

\* the ways in which the loop of UpdateAllPrices can number the symbols it
\* saves (the iteration order of a Go map is not fixed)
SaveOrders(saved) ==
    { order \in [saved -> 1 .. Cardinality(saved)] :
        \A s, t \in saved : order[s] = order[t] => s = t }

\* variant: the new samples replace the stored samples of their symbols
UpdateAllPrices_Replacing ==
    /\ seq.price < MaxSamples
    /\ \E outcome \in [DOMAIN schedulerBasePrices -> Variations \X BOOLEAN] :
         LET prices == [symbol \in DOMAIN schedulerBasePrices |->
                          GeneratePrice(schedulerBasePrices[symbol], outcome[symbol][1])]
             saved  == { symbol \in DOMAIN schedulerBasePrices : outcome[symbol][2] }
         IN  \E order \in SaveOrders(saved) :
                /\ price_history' = { h \in price_history : h.symbol \notin saved } \cup
                      { [id |-> seq.price + order[symbol], symbol |-> symbol,
                         priceINR |-> RoundINR(prices[symbol]), timestamp |-> now]
                        : symbol \in saved }
                /\ schedulerBasePrices' =
                      [symbol \in DOMAIN schedulerBasePrices |->
                          IF symbol \in saved THEN prices[symbol]
                          ELSE schedulerBasePrices[symbol]]
                /\ seq' = [seq EXCEPT !.price = @ + Cardinality(saved)]
    /\ UNCHANGED <<reward_events, ledger_entries, basePrices, now, call, response,
                   calls, reversals, fee, query, stock_config, saving>>

\* PriceService.UpdateAllPrices of the scheduler's PriceService: a price is
\* generated for every symbol of the scheduler's generator, then each one is
\* saved; a save that fails is logged and skipped, a save that succeeds
\* moves the base price of the scheduler's generator
UpdateAllPrices ==
    /\ seq.price < MaxSamples
    /\ \E outcome \in [DOMAIN schedulerBasePrices -> Variations \X BOOLEAN] :
         LET prices == [symbol \in DOMAIN schedulerBasePrices |->
                          GeneratePrice(schedulerBasePrices[symbol], outcome[symbol][1])]
             saved  == { symbol \in DOMAIN schedulerBasePrices : outcome[symbol][2] }
         IN  \E order \in SaveOrders(saved) :
                /\ price_history' = price_history \cup
                      { [id |-> seq.price + order[symbol], symbol |-> symbol,
                         priceINR |-> RoundINR(prices[symbol]), timestamp |-> now]
                        : symbol \in saved }
                /\ schedulerBasePrices' =
                      [symbol \in DOMAIN schedulerBasePrices |->
                          IF symbol \in saved THEN prices[symbol]
                          ELSE schedulerBasePrices[symbol]]
                /\ seq' = [seq EXCEPT !.price = @ + Cardinality(saved)]
    /\ UNCHANGED <<reward_events, ledger_entries, basePrices, now, call, response,
                   calls, reversals, fee, query, stock_config, saving>>

SchedulerNext ==
    \/ \E req \in SchedulerRequests : Request("w1", req)
    \/ CheckDuplicate("w1")
    \/ PriceLookup("w1")
    \/ TxCreateReward("w1")
    \/ TxCreateLedger("w1")
    \/ TxCommit("w1")
    \/ UpdateAllPrices
    \/ Tick

SchedulerSpec ==
    Init /\ [][SchedulerNext]_vars

(***************************************************************************)
(* SavePrice step by step: the record is built, with the time read from    *)
(* the clock, and then inserted; the two PriceService objects save at the  *)
(* same time                                                               *)
(***************************************************************************)
\* GetCurrentPrice of the request path up to its call of SavePrice: no
\* sample of the symbol is stored, or the latest one is stale, and a price
\* is generated
GenerateForRequest(symbol) ==
    /\ saving["request"].pc = "idle"
    /\ seq.price < MaxSamples
    /\ \/ LatestPrices(symbol) = {}
       \/ \E h \in LatestPrices(symbol) : IsStale(h)
    /\ \E v \in Variations :
          saving' = [saving EXCEPT !["request"] =
                        [IdleSave EXCEPT
                            !.pc = "loop",
                            !.prices = [s \in {symbol} |->
                                           GeneratePrice(BaseOf(symbol), v)],
                            !.todo = {symbol}]]
    /\ basePrices' = WithDefault(symbol)
    /\ UNCHANGED <<reward_events, ledger_entries, price_history, seq, now, call,
                   response, calls, reversals, fee, query, stock_config,
                   schedulerBasePrices>>

\* UpdateAllPrices of the scheduler up to its loop: one price is generated
\* for every symbol of the scheduler's generator
GeneratePricesForAllStocks ==
    /\ saving["scheduler"].pc = "idle"
    /\ seq.price < MaxSamples
    /\ \E variation \in [DOMAIN schedulerBasePrices -> Variations] :
          saving' = [saving EXCEPT !["scheduler"] =
                        [IdleSave EXCEPT
                            !.pc = "loop",
                            !.prices = [s \in DOMAIN schedulerBasePrices |->
                                           GeneratePrice(schedulerBasePrices[s],
                                                         variation[s])],
                            !.todo = DOMAIN schedulerBasePrices]]
    /\ UNCHANGED <<reward_events, ledger_entries, price_history, basePrices, seq,
                   now, call, response, calls, reversals, fee, query,
                   stock_config, schedulerBasePrices>>

\* SavePrice, first statement: the record of the next symbol is built with
\* Timestamp: utils.NowUTC()
BuildRecord(service) ==
    /\ saving[service].pc = "loop"
    /\ \E symbol \in saving[service].todo :
          saving' = [saving EXCEPT ![service] =
                        [@ EXCEPT !.pc = "insert",
                                  !.symbol = symbol,
                                  !.price = saving[service].prices[symbol],
                                  !.timestamp = now,
                                  !.todo = @ \ {symbol}]]
    /\ UNCHANGED <<reward_events, ledger_entries, price_history, basePrices, seq,
                   now, call, response, calls, reversals, fee, query,
                   stock_config, schedulerBasePrices>>

\* SavePrice, db.DB.Create and what follows: the record is inserted and the
\* base price of the saving service's generator is moved, or the insert
\* fails and nothing is stored; then the loop goes on, or the call returns
Create(service) ==
    LET save == saving[service]
        after == IF save.todo = {} THEN IdleSave
                 ELSE [save EXCEPT !.pc = "loop"]
    IN  /\ save.pc = "insert"
        /\ saving' = [saving EXCEPT ![service] = after]
        /\ \/ /\ price_history' = price_history \cup
                    {[id |-> seq.price + 1, symbol |-> save.symbol,
                      priceINR |-> RoundINR(save.price),
                      timestamp |-> save.timestamp]}
              /\ seq' = [seq EXCEPT !.price = @ + 1]
              /\ IF service = "request"
                 THEN /\ basePrices' =
                            UpdateBasePrice(basePrices, save.symbol, save.price)
                      /\ UNCHANGED schedulerBasePrices
                 ELSE /\ schedulerBasePrices' =
                            UpdateBasePrice(schedulerBasePrices, save.symbol,
                                            save.price)
                      /\ UNCHANGED basePrices
           \/ UNCHANGED <<price_history, seq, basePrices, schedulerBasePrices>>
        /\ UNCHANGED <<reward_events, ledger_entries, now, call, response, calls,
                       reversals, fee, query, stock_config>>

OracleNext ==
    \/ \E symbol \in DOMAIN NewPriceGenerator : GenerateForRequest(symbol)
    \/ GeneratePricesForAllStocks
    \/ \E service \in PriceServices : BuildRecord(service)
    \/ \E service \in PriceServices : Create(service)
    \/ Tick

OracleSpec ==
    Init /\ [][OracleNext]_vars

(***************************************************************************)
(* Aggregator queries of RewardService                                     *)
(***************************************************************************)
TicksPerDay ==
    24 \div TickHours

MaxDays ==
    2

QueryUsers ==
    {1, 2}

\* a date is the tick at which its day starts
StartOfDayUTC(t) ==
    (t \div TicksPerDay) * TicksPerDay

\* the last tick of the day of t
EndOfDayUTC(t) ==
    StartOfDayUTC(t) + TicksPerDay - 1

GetYesterday ==
    StartOfDayUTC(now - TicksPerDay)

\* the orders in which ORDER BY timestamp DESC may return the rows
OrderByTimestampDesc(rows) ==
    { sq \in [1 .. Cardinality(rows) -> rows] :
        \A i, j \in 1 .. Cardinality(rows) :
            i < j => (sq[i] # sq[j] /\ sq[i].timestamp >= sq[j].timestamp) }

\* the possible outcomes of RewardService.GetTodayRewards(userId)
GetTodayRewards(userId) ==
    { [ok |-> FALSE, rewards |-> << >>] }
    \cup
    { [ok |-> TRUE, rewards |-> sq] :
        sq \in OrderByTimestampDesc(
                  { r \in reward_events :
                      /\ ~r.deleted
                      /\ r.userId = userId
                      /\ r.timestamp >= StartOfDayUTC(now)
                      /\ r.timestamp <= EndOfDayUTC(now) }) }

\* the holdings query restricted to grants with re.timestamp <= endDate
\* variant: the date restricts the ledger entries instead of the grants
GetUserStockHoldingsUpToDate_ByEntryTime(userId, endDate) ==
    Holdings(reward_events, { e \in ledger_entries : e.timestamp <= endDate }, userId)

GetUserStockHoldingsUpToDate(userId, endDate) ==
    Holdings({ r \in reward_events : r.timestamp <= endDate }, ledger_entries, userId)

\* todayRewardsByStock: the quantities of the rewards, summed by symbol
GroupBySymbol(rewards) ==
    LET rows == { rewards[i] : i \in DOMAIN rewards }
    IN  [s \in { r.symbol : r \in rows } |->
            SumOf({ r \in rows : r.symbol = s }, "quantity")]

\* ORDER BY timestamp ASC, First: the live grants of the user with the least timestamp
FirstRewards(userId) ==
    { r \in reward_events :
        /\ ~r.deleted
        /\ r.userId = userId
        /\ \A g \in reward_events :
             (~g.deleted /\ g.userId = userId) => r.timestamp <= g.timestamp }

Query(kind, userId) ==
    [NoQuery EXCEPT !.kind = kind, !.userId = userId]

\* RewardController.GetTodayStocks
GetTodayStocks(userId) ==
    /\ query.pc = "done"
    /\ \E o \in GetTodayRewards(userId) :
         query' = [Query("today", userId) EXCEPT !.err = ~o.ok, !.rewards = o.rewards]
    /\ UNCHANGED <<reward_events, ledger_entries, price_history, basePrices, seq, now,
                   call, response, calls, reversals, fee, stock_config, schedulerBasePrices, saving>>

\* GetPortfolio up to its loop: the holdings query
GetPortfolio(userId) ==
    /\ query.pc = "done"
    /\ \/ query' = [Query("portfolio", userId) EXCEPT !.err = TRUE]
       \/ query' = [Query("portfolio", userId) EXCEPT
                       !.pc = "price",
                       !.holdings = GetUserStockHoldings(userId),
                       !.todo = DOMAIN GetUserStockHoldings(userId)]
    /\ UNCHANGED <<reward_events, ledger_entries, price_history, basePrices, seq, now,
                   call, response, calls, reversals, fee, stock_config, schedulerBasePrices, saving>>

\* GetStats up to its holdings query: today's rewards, grouped by symbol
GetStats(userId) ==
    /\ query.pc = "done"
    /\ \E o \in GetTodayRewards(userId) :
         query' = IF o.ok
                  THEN [Query("stats", userId) EXCEPT
                           !.pc = "holdings", !.todayRewards = GroupBySymbol(o.rewards)]
                  ELSE [Query("stats", userId) EXCEPT !.err = TRUE]
    /\ UNCHANGED <<reward_events, ledger_entries, price_history, basePrices, seq, now,
                   call, response, calls, reversals, fee, stock_config, schedulerBasePrices, saving>>

\* the holdings query of GetStats
StatsHoldings ==
    /\ query.pc = "holdings"
    /\ \/ query' = [query EXCEPT !.pc = "done", !.err = TRUE]
       \/ query' = [query EXCEPT
                       !.pc = "price",
                       !.holdings = GetUserStockHoldings(query.userId),
                       !.todo = DOMAIN GetUserStockHoldings(query.userId)]
    /\ UNCHANGED <<reward_events, ledger_entries, price_history, basePrices, seq, now,
                   call, response, calls, reversals, fee, stock_config, schedulerBasePrices, saving>>

\* one iteration of a valuation loop over the symbol whose lookup had outcome o:
\* a failed lookup is logged and the loop goes on with the next symbol
Valued(symbol, o) ==
    IF o.ok
    THEN [query EXCEPT
             !.todo = @ \ {symbol},
             !.totalValue = Add(@, Mul(o.price, query.holdings[symbol])),
             !.items = IF query.kind = "portfolio"
                       THEN @ \cup {[symbol |-> symbol,
                                     quantity |-> query.holdings[symbol],
                                     currentPrice |-> RoundINR(o.price),
                                     currentValue |->
                                         RoundINR(Mul(o.price, query.holdings[symbol]))]}
                       ELSE @,
             !.priced = @ \cup {[date |-> query.day, symbol |-> symbol,
                                 price |-> o.price, saved |-> o.saved]}]
    ELSE [query EXCEPT
             !.todo = @ \ {symbol},
             !.swallowed = @ \cup {[date |-> query.day, symbol |-> symbol]}]

\* one iteration of the loop of GetStats and GetPortfolio: GetCurrentPrice(symbol)
CurrentPriceOf(symbol) ==
    /\ query.pc = "price"
    /\ symbol \in query.todo
    /\ \E o \in GetCurrentPrice(symbol) :
         /\ price_history' = o.history
         /\ basePrices' = o.base
         /\ seq' = [seq EXCEPT !.price = o.seq]
         /\ query' = Valued(symbol, o)
    /\ UNCHANGED <<reward_events, ledger_entries, now, call, response, calls,
                   reversals, fee, stock_config, schedulerBasePrices, saving>>

\* GetStats and GetPortfolio after the loop: the result is returned, with
\* RoundINR(totalValue) as totalValue or portfolioValueINR
ReturnValue ==
    /\ query.pc = "price"
    /\ query.todo = {}
    /\ query' = [query EXCEPT !.pc = "done", !.totalValue = RoundINR(@)]
    /\ UNCHANGED <<reward_events, ledger_entries, price_history, basePrices, seq, now,
                   call, response, calls, reversals, fee, stock_config, schedulerBasePrices, saving>>

\* GetHistoricalINR up to its loop: yesterday, the first reward and the dates
GetHistoricalINR(userId) ==
    /\ query.pc = "done"
    /\ \/ query' = [Query("historical", userId) EXCEPT !.err = TRUE]
       \/ /\ FirstRewards(userId) = {}
          /\ query' = Query("historical", userId)
       \/ \E firstReward \in FirstRewards(userId) :
            query' = [Query("historical", userId) EXCEPT
                         !.pc = "dates",
                         !.day = StartOfDayUTC(firstReward.timestamp),
                         !.last = GetYesterday]
    /\ UNCHANGED <<reward_events, ledger_entries, price_history, basePrices, seq, now,
                   call, response, calls, reversals, fee, stock_config, schedulerBasePrices, saving>>

\* the head of the loop over GetPastDates(startDate, yesterday): the holdings
\* up to the end of the date; a failed query is logged and the date is skipped
HistoricalHoldings ==
    /\ query.pc = "dates"
    /\ IF query.day > query.last
       THEN query' = [query EXCEPT !.pc = "done"]
       ELSE \/ query' = [query EXCEPT
                            !.day = @ + TicksPerDay,
                            !.swallowed = @ \cup {[date |-> query.day, symbol |-> ""]}]
            \/ LET holdings == GetUserStockHoldingsUpToDate(query.userId,
                                                            EndOfDayUTC(query.day))
               IN  query' = [query EXCEPT !.pc = "prices", !.holdings = holdings,
                                          !.todo = DOMAIN holdings,
                                          !.totalValue = Zero]
    /\ UNCHANGED <<reward_events, ledger_entries, price_history, basePrices, seq, now,
                   call, response, calls, reversals, fee, stock_config, schedulerBasePrices, saving>>

\* one iteration of the inner loop of GetHistoricalINR: GetPriceAtTime(symbol, endOfDate)
HistoricalPriceOf(symbol) ==
    /\ query.pc = "prices"
    /\ symbol \in query.todo
    /\ \E o \in GetPriceAtTime(symbol, EndOfDayUTC(query.day)) :
         /\ price_history' = o.history
         /\ basePrices' = o.base
         /\ seq' = [seq EXCEPT !.price = o.seq]
         /\ query' = Valued(symbol, o)
    /\ UNCHANGED <<reward_events, ledger_entries, now, call, response, calls,
                   reversals, fee, stock_config, schedulerBasePrices, saving>>

\* the end of an iteration of the loop over the dates: the day's value is appended
HistoricalAppend ==
    /\ query.pc = "prices"
    /\ query.todo = {}
    /\ query' = [query EXCEPT
                    !.pc = "dates",
                    !.days = Append(@, [date |-> query.day,
                                        valueINR |-> RoundINR(query.totalValue)]),
                    !.day = @ + TicksPerDay]
    /\ UNCHANGED <<reward_events, ledger_entries, price_history, basePrices, seq, now,
                   call, response, calls, reversals, fee, stock_config, schedulerBasePrices, saving>>

\* The databases the queries are run on: the states of one execution after
\* each of its first events.
\*   1. at tick 0, CreateReward of 1 TCS dated tomorrow: the price is generated
\*      and saving it fails
\*   2. at tick 0, CreateReward of 2.5 RELIANCE dated tick 1: the price is
\*      generated and saved
\*   3. at tick 2, a lookup of RELIANCE finds the sample stale, generates a
\*      price and saves it
\*   4. on the next day, CreateReversalEntries of the RELIANCE grant
MaxEvents ==
    4

EventTime(events) ==
    IF events <= 2 THEN 0 ELSE IF events = 3 THEN 2 ELSE TicksPerDay + 1

Database(events) ==
    LET priceTCS  == GeneratePrice(NewPriceGenerator["TCS"], Zero)
        rewardTCS == [id |-> 1, userId |-> 1, symbol |-> "TCS",
                      quantity |-> RoundQuantity(Dec(1, 0)),
                      timestamp |-> TicksPerDay + 1, deleted |-> FALSE]
        price1    == GeneratePrice(NewPriceGenerator["RELIANCE"], Zero)
        reward    == [id |-> 2, userId |-> 1, symbol |-> "RELIANCE",
                      quantity |-> RoundQuantity(Dec(25, 1)),
                      timestamp |-> 1, deleted |-> FALSE]
        entries   == LedgerEntriesFor(reward, price1, 3)
        price2    == GeneratePrice(price1, Dec(3333, 5))
    IN  [reward_events |->
             (IF events >= 1 THEN {rewardTCS} ELSE {}) \cup
             (IF events >= 2 THEN {reward} ELSE {}),
         ledger_entries |->
             (IF events >= 1 THEN LedgerEntriesFor(rewardTCS, priceTCS, 0) ELSE {}) \cup
             (IF events >= 2 THEN entries ELSE {}) \cup
             (IF events >= 4
              THEN { [ReversalOf(e, 6 + RankIn(e, entries)) EXCEPT
                         !.timestamp = EventTime(4)] : e \in entries }
              ELSE {}),
         price_history |->
             (IF events >= 2
              THEN {[id |-> 1, symbol |-> "RELIANCE", priceINR |-> RoundINR(price1),
                     timestamp |-> EventTime(2)]}
              ELSE {}) \cup
             (IF events >= 3
              THEN {[id |-> 2, symbol |-> "RELIANCE", priceINR |-> RoundINR(price2),
                     timestamp |-> EventTime(3)]}
              ELSE {}),
         basePrices |->
             IF events >= 3 THEN UpdateBasePrice(NewPriceGenerator, "RELIANCE", price2)
             ELSE IF events = 2
             THEN UpdateBasePrice(NewPriceGenerator, "RELIANCE", price1)
             ELSE NewPriceGenerator,
         seq |-> [reward |-> IF events >= 2 THEN 2 ELSE events,
                  ledger |-> IF events >= 4 THEN 9 ELSE IF events >= 2 THEN 6
                             ELSE 3 * events,
                  price  |-> IF events >= 3 THEN 2 ELSE IF events = 2 THEN 1 ELSE 0],
         response |->
             IF events = 0 THEN NoResponse
             ELSE [status |-> 200, err |-> "",
                   written |-> [rewards |-> 1, entries |-> 3,
                                prices |-> IF events = 1 THEN 0 ELSE 1]],
         calls |-> IF events >= 2 THEN 2 ELSE events,
         reversals |-> IF events >= 4 THEN 1 ELSE 0]

\* the queries are made at the time of the last event or at the start of a later day
QueryInit ==
    \E events \in 0 .. MaxEvents, day \in 0 .. MaxDays :
        /\ now = (IF day = 0 THEN EventTime(events) ELSE day * TicksPerDay)
        /\ now >= EventTime(events)
        /\ reward_events = Database(events).reward_events
        /\ ledger_entries = Database(events).ledger_entries
        /\ price_history = Database(events).price_history
        /\ basePrices = Database(events).basePrices
        /\ seq = Database(events).seq
        /\ call = [p \in Procs |-> IdleCall]
        /\ response = Database(events).response
        /\ calls = Database(events).calls
        /\ reversals = Database(events).reversals
        /\ fee = NoFee
        /\ query = NoQuery
        /\ stock_config = InitialStockConfig
        /\ schedulerBasePrices = NewPriceGenerator
        /\ saving = NoSaving

Multipliers ==
    { Dec(1, 0), Dec(2, 0) }

\* the operator's UPDATE stock_config SET multiplier = ? WHERE stock_symbol = ?
UpdateMultiplier(symbol, multiplier) ==
    /\ symbol \in DOMAIN stock_config
    /\ stock_config[symbol] # multiplier
    /\ stock_config' = [stock_config EXCEPT ![symbol] = multiplier]
    /\ UNCHANGED <<reward_events, ledger_entries, price_history, basePrices, seq, now,
                   call, response, calls, reversals, fee, query, schedulerBasePrices, saving>>

QueryNext ==
    \/ \E symbol \in DOMAIN stock_config, multiplier \in Multipliers :
         UpdateMultiplier(symbol, multiplier)
    \/ \E userId \in QueryUsers : GetTodayStocks(userId)
    \/ \E userId \in QueryUsers : GetPortfolio(userId)
    \/ \E userId \in QueryUsers : GetStats(userId)
    \/ StatsHoldings
    \/ \E symbol \in query.todo : CurrentPriceOf(symbol)
    \/ ReturnValue
    \/ \E userId \in QueryUsers : GetHistoricalINR(userId)
    \/ HistoricalHoldings
    \/ \E symbol \in query.todo : HistoricalPriceOf(symbol)
    \/ HistoricalAppend

QuerySpec ==
    QueryInit /\ [][QueryNext]_vars

(***************************************************************************)
(* RewardService.GetPortfolio over holdings of two symbols                 *)
(***************************************************************************)
\* the quantities granted to the user whose portfolio is asked for
PortfolioQuantities ==
    { Dec(25, 1), Dec(1, 4) }

\* the grant of quantity shares of symbol with primary key id
PortfolioGrant(id, symbol, quantity) ==
    [id |-> id, userId |-> 1, symbol |-> symbol,
     quantity |-> RoundQuantity(quantity), timestamp |-> 0, deleted |-> FALSE]

\* user 1 was granted RELIANCE and TCS at the seed prices; no price sample
\* is stored
PortfolioInit ==
    \E q1 \in PortfolioQuantities, q2 \in PortfolioQuantities :
        /\ reward_events = { PortfolioGrant(1, "RELIANCE", q1),
                             PortfolioGrant(2, "TCS", q2) }
        /\ ledger_entries =
              LedgerEntriesFor(PortfolioGrant(1, "RELIANCE", q1),
                               NewPriceGenerator["RELIANCE"], 0) \cup
              LedgerEntriesFor(PortfolioGrant(2, "TCS", q2),
                               NewPriceGenerator["TCS"], 3)
        /\ price_history = {}
        /\ basePrices = NewPriceGenerator
        /\ seq = [reward |-> 2, ledger |-> 6, price |-> 0]
        /\ now = 0
        /\ call = [p \in Procs |-> IdleCall]
        /\ response = NoResponse
        /\ calls = 0
        /\ reversals = 0
        /\ fee = NoFee
        /\ query = NoQuery
        /\ stock_config = InitialStockConfig
        /\ schedulerBasePrices = NewPriceGenerator
        /\ saving = NoSaving

PortfolioNext ==
    \/ \E userId \in QueryUsers : GetPortfolio(userId)
    \/ \E symbol \in query.todo : CurrentPriceOf(symbol)
    \/ ReturnValue

PortfolioSpec ==
    PortfolioInit /\ [][PortfolioNext]_vars

(***************************************************************************)
(* utils.CalculateFees as a function of its arguments                      *)
(***************************************************************************)
FeePrices ==
    { Dec(245050, 2), Dec(6666667, 2), Dec(6666666, 2), Dec(6666668, 2),
      Dec(3333, 4), Dec(12345678, 4), Dec(368075, 2), Dec(7000, 0) }

FeeQuantities ==
    { Dec(25, 1), Dec(1, 0), Dec(1, 6), Dec(5, 1), Dec(30, 0), Dec(10000, 0),
      Dec(9999999, 6) }

FeeInit ==
    /\ reward_events = {}
    /\ ledger_entries = {}
    /\ price_history = {}
    /\ basePrices = NewPriceGenerator
    /\ seq = [reward |-> 0, ledger |-> 0, price |-> 0]
    /\ now = 0
    /\ call = [p \in Procs |-> IdleCall]
    /\ response = NoResponse
    /\ calls = 0
    /\ reversals = 0
    /\ \E pricePerShare \in FeePrices, quantity \in FeeQuantities :
         fee = [NoFee EXCEPT !.pricePerShare = pricePerShare, !.quantity = quantity]
    /\ query = NoQuery
    /\ stock_config = InitialStockConfig
    /\ schedulerBasePrices = NewPriceGenerator
    /\ saving = NoSaving

ApplyCalculateFees ==
    /\ ~fee.applied
    /\ fee' = [fee EXCEPT !.applied = TRUE,
                          !.result = CalculateFees(fee.pricePerShare, fee.quantity)]
    /\ UNCHANGED <<reward_events, ledger_entries, price_history, basePrices, seq, now,
                   call, response, calls, reversals, query, stock_config, schedulerBasePrices, saving>>

FeeNext ==
    ApplyCalculateFees

FeeSpec ==
    FeeInit /\ [][FeeNext]_vars

(***************************************************************************)
(* Properties                                                              *)
(***************************************************************************)
\* the live committed grants with the deduplication key of a call
LiveWithKey(c) ==
    { r \in reward_events :
        /\ ~r.deleted
        /\ r.userId = c.userId
        /\ r.symbol = c.symbol
        /\ r.quantity = c.quantity
        /\ r.timestamp = c.timestamp }

\* worker p leaves program point pc of CreateReward in this step
Leaves(p, pc) ==
    call[p].pc = pc /\ call'[p].pc # pc

\* worker p's call returns in this step
Returns(p) ==
    call[p].pc # "idle" /\ call'[p].pc = "idle"

Failed(r) ==
    r.status \notin {0, 200}

\* C1: a CreateReward submitted when a live grant with the identical (user,
\* symbol, quantity, timestamp) tuple is already committed returns the
\* DuplicateGrant outcome (unless the duplicate query itself fails) and leaves
\* exactly that one grant, its 3 ledger entries and holdings(user) as they
\* were after the first, successful call.
C1_IdempotentByRejection ==
    [][\A p \in Procs :
         (/\ Leaves(p, "check")
          /\ LiveWithKey(call[p]) # {}
          /\ ~(Returns(p) /\ response'.err = "failed to check for duplicates"))
         => /\ Returns(p)
            /\ response'.err = DuplicateMessage
            /\ response'.status = 409
            /\ reward_events' = reward_events
            /\ ledger_entries' = ledger_entries
            /\ Cardinality(LiveWithKey(call[p])) = 1
            /\ \A r \in LiveWithKey(call[p]) :
                 reversals = 0 =>
                    Cardinality({ e \in ledger_entries : e.rewardEventId = r.id }) = 3
            /\ Holdings(reward_events', ledger_entries', call[p].userId) =
                  GetUserStockHoldings(call[p].userId)]_vars

\* C1 witness: a second submission was answered with the duplicate outcome
\* while the grant of the first one and its 3 entries are in place
C1_Witness ==
    /\ response.err = DuplicateMessage
    /\ response.status = 409
    /\ Cardinality(reward_events) = 1
    /\ Cardinality(ledger_entries) = 3
    /\ \A r \in reward_events :
         GetUserStockHoldings(r.userId) = (r.symbol :> r.quantity)

\* C2: at most one live grant exists for any (user, symbol, rounded quantity,
\* timestamp) tuple, in every reachable state of the interleaved calls.
C2_UniqueLiveGrant ==
    \A r1, r2 \in reward_events :
        (/\ ~r1.deleted /\ ~r2.deleted
         /\ r1.userId = r2.userId /\ r1.symbol = r2.symbol
         /\ r1.quantity = r2.quantity /\ r1.timestamp = r2.timestamp)
        => r1.id = r2.id

\* C2 witness: two calls with the same key both passed the duplicate check;
\* one committed and the insert of the other was refused by the unique index
C2_Witness ==
    /\ response.err = UniqueViolationMessage
    /\ Cardinality(reward_events) = 1

\* C3: the call that loses the race of two identical concurrent requests (its
\* insert is refused by the unique index) ends with the DuplicateGrant
\* outcome, the conflict status of a sequential duplicate, not with the
\* internal-failure status.
C3_RaceLoserIsDuplicate ==
    response.err = UniqueViolationMessage => response.status = 409

\* C4 (as claimed): a failed CreateReward has made no row durable in any
\* relation: no grant, no ledger entry and no price sample.
C4_FailedCallWritesNothing ==
    Failed(response) =>
        /\ response.written.rewards = 0
        /\ response.written.entries = 0
        /\ response.written.prices = 0

\* C4 (amended): a failed CreateReward has made no grant and no ledger entry
\* durable; the only row it may leave behind is the price sample that its
\* price lookup synthesized and saved before the failure.
C4_FailedCallWritesNoGrantNoEntry ==
    Failed(response) =>
        /\ response.written.rewards = 0
        /\ response.written.entries = 0
        /\ response.written.prices <= 1

\* C4 witness: a call failed after its price lookup had saved a sample
C4_Witness ==
    /\ Failed(response)
    /\ response.written.prices = 1
    /\ price_history # {}
    /\ reward_events = {}
    /\ ledger_entries = {}

\* C5: in every state a reader can observe, every committed grant has its
\* STOCK, CASH and FEE entries, and every ledger entry belongs to a committed
\* grant.
C5_GrantIffEntries ==
    /\ \A r \in reward_events :
         \A kind \in {"STOCK", "CASH", "FEE"} :
            \E e \in ledger_entries :
               /\ e.rewardEventId = r.id
               /\ e.entryType = kind
               /\ e.timestamp = r.timestamp
    /\ \A e \in ledger_entries :
         \E r \in reward_events : r.id = e.rewardEventId

\* C5 witness: a transaction holds a grant and its 3 entries that no reader
\* sees yet, next to a committed grant, after some call has failed
C5_Witness ==
    /\ \E p \in Procs :
         /\ call[p].pc = "commit"
         /\ call[p].txReward \notin reward_events
         /\ Cardinality(call[p].txEntries) = 3
         /\ call[p].txEntries \cap ledger_entries = {}
    /\ reward_events # {}

\* the sum of the amounts of a set of rows
AmountSum(rows) ==
    SumOf(rows, "amountINR")

RawBrokerage(pricePerShare, quantity) ==
    LET raw == Mul(Mul(pricePerShare, quantity), Dec(3, 4))
    IN  IF GreaterThan(raw, Dec(20, 0)) THEN Dec(20, 0) ELSE raw

RawStt(pricePerShare, quantity) ==
    Mul(Mul(pricePerShare, quantity), Dec(1, 3))

RawGst(pricePerShare, quantity) ==
    Mul(RawBrokerage(pricePerShare, quantity), Dec(18, 2))

BrokerageThreshold ==
    Dec(6666667, 2)

\* C9: brokerage is at most 20; it is round4(0.03% of totalValue) when
\* totalValue <= 66,666.67 and exactly 20 otherwise; STT is 0.10% of
\* totalValue and GST is 18% of the capped brokerage (each rounded to 4
\* decimals).
C9_FeeBound ==
    fee.applied =>
        LET totalValue == Mul(fee.pricePerShare, fee.quantity)
            percent    == Mul(totalValue, Dec(3, 4))
            capped     == IF GreaterThan(percent, Dec(20, 0)) THEN Dec(20, 0)
                          ELSE percent
        IN  /\ LessThanOrEqual(fee.result.brokerage, Dec(20, 0))
            /\ LessThanOrEqual(totalValue, BrokerageThreshold)
                  => fee.result.brokerage = Round(percent, 4)
            /\ GreaterThan(totalValue, BrokerageThreshold)
                  => fee.result.brokerage = Dec(20, 0)
            /\ fee.result.stt = Round(Mul(totalValue, Dec(1, 3)), 4)
            /\ fee.result.gst = Round(Mul(capped, Dec(18, 2)), 4)

\* C9 witness: fees were computed for a transaction value above the
\* threshold, where 0.03% of it exceeds 20 and the cap applies
C9_Witness ==
    /\ fee.applied
    /\ GreaterThan(Mul(fee.pricePerShare, fee.quantity), BrokerageThreshold)
    /\ GreaterThan(Mul(Mul(fee.pricePerShare, fee.quantity), Dec(3, 4)), Dec(21, 0))
    /\ fee.result.brokerage = Dec(20, 0)

\* the entries of a grant of one kind, in a set of ledger rows
KindOf(rows, rewardEventId, kind) ==
    { e \in rows : e.rewardEventId = rewardEventId /\ e.entryType = kind }

\* C10: one reversal of a grant that has only its 3 original entries leaves
\* the grant's entries summing to zero quantity and zero amount for each of
\* STOCK, CASH and FEE, so that the grant contributes nothing to
\* holdings(user), while the grant row and the original entries stay as they
\* were.
C10_ReversalNullifies ==
    [][\A g \in reward_events :
         (/\ reversals' = reversals + 1
          /\ Cardinality({ e \in ledger_entries : e.rewardEventId = g.id }) = 3
          /\ \E e \in ledger_entries' \ ledger_entries : e.rewardEventId = g.id)
         => /\ reward_events' = reward_events
            /\ ledger_entries \subseteq ledger_entries'
            /\ Cardinality({ e \in ledger_entries' : e.rewardEventId = g.id }) = 6
            /\ \A kind \in {"STOCK", "CASH", "FEE"} :
                 /\ SumOf(KindOf(ledger_entries', g.id, kind), "quantity") = Zero
                 /\ SumOf(KindOf(ledger_entries', g.id, kind), "amountINR") = Zero
            /\ LET others == { e \in ledger_entries :
                                 /\ e.entryType = "STOCK"
                                 /\ e.symbol = g.symbol
                                 /\ e.rewardEventId # g.id
                                 /\ \E r \in reward_events :
                                      r.id = e.rewardEventId /\ r.userId = g.userId }
                   net    == SumOf(others, "quantity")
                   after  == Holdings(reward_events', ledger_entries', g.userId)
               IN  IF GreaterThan(net, Zero)
                   THEN g.symbol \in DOMAIN after /\ after[g.symbol] = net
                   ELSE g.symbol \notin DOMAIN after]_vars

\* C10 witness: a grant that was held has been reversed once and is no
\* longer part of the holdings, its 3 original entries still being there
C10_Witness ==
    /\ reversals = 1
    /\ \E g \in reward_events :
         /\ Cardinality({ e \in ledger_entries : e.rewardEventId = g.id }) = 6
         /\ \E e \in ledger_entries :
              /\ e.rewardEventId = g.id
              /\ e.entryType = "STOCK"
              /\ e.quantity = g.quantity
              /\ e.timestamp = g.timestamp
         /\ g.symbol \notin DOMAIN GetUserStockHoldings(g.userId)

\* the entries that a step adds to a grant
AddedTo(g) ==
    { e \in ledger_entries' \ ledger_entries : e.rewardEventId = g.id }

\* the entry of a kind created with grant g: the first one stored for it
OriginalOf(g, kind) ==
    { o \in KindOf(ledger_entries, g.id, kind) :
        \A e \in KindOf(ledger_entries, g.id, kind) : o.id <= e.id }

\* grant g, which has been reversed once before, is reversed again in this step
ReversedAgain(g) ==
    /\ reversals' = reversals + 1
    /\ Cardinality(EntriesOf(g.id)) = 6
    /\ AddedTo(g) # {}

\* C11 (as claimed): a second reversal of a grant negates the 3 original
\* entries again, leaving a net STOCK quantity of -quantity and, for each
\* kind, a net amount that is the negation of the original amount.
C11_SecondReversalDoubleNegates ==
    [][\A g \in reward_events :
         ReversedAgain(g)
         => /\ SumOf(KindOf(ledger_entries', g.id, "STOCK"), "quantity") = Neg(g.quantity)
            /\ \A kind \in {"STOCK", "CASH", "FEE"} :
                 \A o \in OriginalOf(g, kind) :
                    SumOf(KindOf(ledger_entries', g.id, kind), "amountINR")
                       = Neg(o.amountINR)]_vars

\* C12 (as claimed): every reversal that appends entries appends exactly 3,
\* all of them owned by the reversed grant.
C12_ReversalAppendsThree ==
    [][\A g \in reward_events :
         (reversals' = reversals + 1 /\ AddedTo(g) # {})
         => /\ Cardinality(AddedTo(g)) = 3
            /\ ledger_entries' \ ledger_entries = AddedTo(g)]_vars

\* the users and symbols that the holdings are asked for
AskedUsers ==
    {1, 2}

AskedSymbols ==
    {"RELIANCE", "TCS"}

\* the net quantity of the STOCK entries of a symbol owned by live grants of a user
NetStock(userId, symbol) ==
    SumOf({ e \in ledger_entries :
              /\ e.entryType = "STOCK"
              /\ e.symbol = symbol
              /\ \E r \in reward_events :
                   r.id = e.rewardEventId /\ r.userId = userId /\ ~r.deleted },
          "quantity")

\* C13: holdings(user) maps each symbol to the sum of the quantities of the
\* STOCK entries whose grant belongs to the user and is live, and contains
\* exactly the symbols whose sum is strictly positive.
C13_HoldingsAreNetStock ==
    \A u \in AskedUsers :
        LET holdings == GetUserStockHoldings(u)
        IN  /\ DOMAIN holdings \subseteq AskedSymbols
            /\ \A s \in AskedSymbols :
                 /\ s \in DOMAIN holdings <=> GreaterThan(NetStock(u, s), Zero)
                 /\ s \in DOMAIN holdings => holdings[s] = NetStock(u, s)

\* C13 witness: of two grants of one symbol one has been reversed, and the
\* holdings of the user show the quantity of the other
C13_Witness ==
    /\ Cardinality(reward_events) = 2
    /\ reversals = 1
    /\ Cardinality(ledger_entries) = 9
    /\ "RELIANCE" \in DOMAIN GetUserStockHoldings(1)
    /\ \E g \in reward_events :
         /\ Cardinality(EntriesOf(g.id)) = 3
         /\ GetUserStockHoldings(1)["RELIANCE"] = g.quantity
    /\ GetUserStockHoldings(2) = << >>

\* the latest samples of a symbol that are at most 2 hours old
FreshLatest(symbol) ==
    { h \in price_history :
        /\ h.symbol = symbol
        /\ \A g \in price_history : g.symbol = symbol => g.timestamp <= h.timestamp
        /\ (now - h.timestamp) * TickHours <= 2 }

\* C14: currentPrice(symbol) returns the price of the latest sample only if
\* that sample is at most 2 hours old, and then writes nothing; if the latest
\* sample is older than 2 hours or there is none, it returns a price that it
\* synthesized, and the sample it saves for it (unless the save fails, which
\* leaves the samples as they were) is one new row timestamped now.
C14_NeverStale ==
    \A symbol \in AskedSymbols :
        \A o \in GetCurrentPrice(symbol) :
            o.ok =>
                IF FreshLatest(symbol) = {}
                THEN /\ o.generated
                     /\ o.saved = 0 => o.history = price_history
                     /\ o.saved = 1 =>
                          /\ price_history \subseteq o.history
                          /\ Cardinality(o.history \ price_history) = 1
                          /\ \A h \in o.history \ price_history :
                               /\ h.symbol = symbol
                               /\ h.timestamp = now
                               /\ h.priceINR = o.price
                ELSE /\ ~o.generated
                     /\ o.saved = 0
                     /\ o.price \in { h.priceINR : h \in FreshLatest(symbol) }
                     /\ o.history = price_history

\* C14 witness: a lookup made 4 hours after the latest sample has saved a
\* new sample timestamped now and returned its price
C14_Witness ==
    \E p \in Procs :
        /\ call[p].pc = "begin"
        /\ call[p].saved = 1
        /\ \E old, new \in price_history :
             /\ old.symbol = call[p].symbol /\ new.symbol = call[p].symbol
             /\ (now - old.timestamp) * TickHours = 4
             /\ new.timestamp = now
             /\ new.priceINR = call[p].pricePerShare

\* the instants at which a price is asked for: the end of each day
AskedTimes ==
    { EndOfDayUTC(day * TicksPerDay) : day \in 0 .. MaxDays }

\* the samples of the symbol observed at or before t
SamplesUpTo(symbol, t) ==
    { h \in price_history : h.symbol = symbol /\ h.timestamp <= t }

\* C15: priceAt(symbol, t) returns the price of the sample with the greatest
\* observation time <= t, however old that sample is, and writes nothing; when
\* the symbol has no sample observed at or before t, its outcome is an outcome
\* of currentPrice(symbol).
C15_PriceAtIsLatestUpTo ==
    \A symbol \in AskedSymbols, t \in AskedTimes :
        \A o \in GetPriceAtTime(symbol, t) :
            o.ok =>
                IF SamplesUpTo(symbol, t) # {}
                THEN /\ \E h \in SamplesUpTo(symbol, t) :
                          /\ \A g \in SamplesUpTo(symbol, t) : g.timestamp <= h.timestamp
                          /\ o.price = h.priceINR
                     /\ ~o.generated
                     /\ o.saved = 0
                     /\ o.history = price_history
                ELSE o \in GetCurrentPrice(symbol)

\* C15 witness: a historical valuation priced RELIANCE at the end of day 0 by
\* the later of two samples of that day, which is more than two hours old,
\* and priced TCS, which has no sample up to the end of day 1, by a price that
\* was generated for the occasion.
C15_Witness ==
    /\ query.kind = "historical"
    /\ \E p \in query.priced, old, new \in SamplesUpTo("RELIANCE", EndOfDayUTC(0)) :
         /\ p.symbol = "RELIANCE"
         /\ p.date = 0
         /\ old.timestamp < new.timestamp
         /\ old.priceINR # new.priceINR
         /\ p.price = new.priceINR
         /\ (now - new.timestamp) * TickHours > 2
    /\ \E p \in query.priced :
         /\ p.symbol = "TCS"
         /\ p.date = TicksPerDay
         /\ \A h \in SamplesUpTo("TCS", EndOfDayUTC(TicksPerDay)) : FALSE
         /\ \E h \in price_history :
              h.symbol = "TCS" /\ h.timestamp = now /\ h.priceINR = p.price

\* C16 (as claimed): no step of an aggregator query adds, changes or removes
\* a grant, a ledger entry or a price sample.
C16_QueriesReadOnly ==
    [][query' # query => UNCHANGED <<reward_events, ledger_entries, price_history>>]_vars

\* C16 (amended): no step of an aggregator query adds, changes or removes a
\* grant or a ledger entry, or changes or removes a price sample, and
\* todayGrants adds no sample either; a step of historicalDailyValue,
\* statsToday or portfolio adds at most one sample: one observed now, for the
\* symbol being priced, when that symbol has no sample of the last two hours.
C16_QueriesOnlyAddSamples ==
    [][query' # query =>
        /\ UNCHANGED <<reward_events, ledger_entries>>
        /\ price_history \subseteq price_history'
        /\ Cardinality(price_history' \ price_history) <= 1
        /\ (query'.kind = "today" => price_history' = price_history)
        /\ \A h \in price_history' \ price_history :
             /\ h.timestamp = now
             /\ h.symbol \in query.todo
             /\ FreshLatest(h.symbol) = {}]_vars

\* C16 witness: a portfolio query was given a price that it saved as a new
\* sample of RELIANCE, next to the two earlier samples of that symbol
C16_Witness ==
    /\ query.kind = "portfolio"
    /\ \E p \in query.priced, h \in price_history :
         /\ p.symbol = "RELIANCE"
         /\ p.saved = 1
         /\ h.symbol = "RELIANCE"
         /\ h.timestamp = now
         /\ h.priceINR = p.price
         /\ Cardinality({ g \in price_history :
                            g.symbol = "RELIANCE" /\ g.timestamp < now }) = 2

\* C17: when a holdings query or a price lookup failed during
\* historicalDailyValue, statsToday or portfolio, the query returns an error:
\* it returns no result from which the failing day is missing or in whose
\* total the failing symbol is left out.
C17_FailedReadIsAnError ==
    (query.pc = "done" /\ query.swallowed # {}) => query.err

\* the net STOCK quantity of a symbol over the live grants of a user whose
\* event timestamp is at or before t
NetStockAsOf(userId, symbol, t) ==
    SumOf({ e \in ledger_entries :
              /\ e.entryType = "STOCK"
              /\ e.symbol = symbol
              /\ \E r \in reward_events :
                   /\ r.id = e.rewardEventId
                   /\ r.userId = userId
                   /\ ~r.deleted
                   /\ r.timestamp <= t }, "quantity")

\* the symbols the user holds as of t
HeldAsOf(userId, t) ==
    { s \in AskedSymbols : GreaterThan(NetStockAsOf(userId, s, t), Zero) }

\* the live grants of a user
LiveGrants(userId) ==
    { r \in reward_events : r.userId = userId /\ ~r.deleted }

\* the days the history of a user covers: from the day of the earliest live
\* grant through yesterday
HistoryDays(userId) ==
    { day * TicksPerDay : day \in
        { d \in 0 .. MaxDays + 1 :
            /\ \E r \in LiveGrants(userId) : r.timestamp < (d + 1) * TicksPerDay
            /\ (d + 1) * TicksPerDay <= now } }

\* the price the query in progress was given for a symbol on a date
PriceGiven(date, symbol) ==
    (CHOOSE p \in query.priced : p.date = date /\ p.symbol = symbol).price

\* the value of the holdings as of the end of a date at the prices given
ValueAsOf(userId, date) ==
    LET value(s) == IF s \in HeldAsOf(userId, EndOfDayUTC(date))
                    THEN Mul(PriceGiven(date, s),
                             NetStockAsOf(userId, s, EndOfDayUTC(date)))
                    ELSE Zero
    IN  Round(Add(value("RELIANCE"), value("TCS")), 4)

\* C18: historicalDailyValue(user) returns one entry for each day from the
\* day of the user's earliest live grant through yesterday, in consecutive
\* order, none for today, none at all when the user has no grant or the
\* earliest grant is today or later; each value is round4 of the sum over the
\* holdings as of the end of the day of quantity * priceAt(symbol, end of day).
C18_HistoricalDays ==
    (query.kind = "historical" /\ query.pc = "done" /\ ~query.err) =>
        /\ Len(query.days) = Cardinality(HistoryDays(query.userId))
        /\ \A i \in 1 .. Len(query.days) :
             /\ query.days[i].date \in HistoryDays(query.userId)
             /\ query.days[i].date < StartOfDayUTC(now)
             /\ (i > 1 => query.days[i].date = query.days[i - 1].date + TicksPerDay)
             /\ \A s \in HeldAsOf(query.userId, EndOfDayUTC(query.days[i].date)) :
                  /\ \E p \in query.priced :
                       p.date = query.days[i].date /\ p.symbol = s
                  /\ (SamplesUpTo(s, EndOfDayUTC(query.days[i].date)) # {} =>
                       \E h \in SamplesUpTo(s, EndOfDayUTC(query.days[i].date)) :
                           /\ \A g \in SamplesUpTo(s, EndOfDayUTC(query.days[i].date)) :
                                g.timestamp <= h.timestamp
                           /\ PriceGiven(query.days[i].date, s) = h.priceINR)
             /\ query.days[i].valueINR = ValueAsOf(query.userId, query.days[i].date)

\* C18 restricted to the executions in which every read succeeded
C18_WhenNoReadFailed ==
    query.swallowed = {} => C18_HistoricalDays

\* the symbols of which the user has a positive net STOCK quantity
Held(userId) ==
    { s \in AskedSymbols : GreaterThan(NetStock(userId, s), Zero) }

\* the value of the holdings at the prices given to the query
ValueNow(userId) ==
    LET value(s) == IF s \in Held(userId)
                    THEN Mul(PriceGiven(0, s), NetStock(userId, s))
                    ELSE Zero
    IN  Round(Add(value("RELIANCE"), value("TCS")), 4)

\* C19: the totalValue of portfolio(user) and the portfolioValueINR of
\* statsToday(user) are round4 of the sum over every symbol of holdings(user)
\* of currentPrice(symbol) * quantity, and the holdings list of the portfolio
\* has exactly the symbols of holdings(user).
C19_ValueOfHoldings ==
    (query.kind \in {"portfolio", "stats"} /\ query.pc = "done" /\ ~query.err) =>
        /\ \A s \in Held(query.userId) : \E p \in query.priced : p.symbol = s
        /\ query.totalValue = ValueNow(query.userId)
        /\ query.kind = "portfolio" =>
             /\ { i.symbol : i \in query.items } = Held(query.userId)
             /\ \A i \in query.items :
                  /\ i.quantity = NetStock(query.userId, i.symbol)
                  /\ i.currentPrice = PriceGiven(0, i.symbol)

\* C19 restricted to the executions in which every read succeeded
C19_WhenNoReadFailed ==
    query.swallowed = {} => C19_ValueOfHoldings

\* C20: every persisted grant has a quantity that is strictly positive, at
\* most 10,000 and of at most 6 fractional digits: a request whose quantity,
\* rounded to 6 digits, is not positive creates nothing.
C20_PersistedQuantityValid ==
    \A r \in reward_events :
        /\ GreaterThan(r.quantity, Zero)
        /\ LessThanOrEqual(r.quantity, MaxQuantity)
        /\ Round(r.quantity, 6) = r.quantity

\* C21: every persisted grant has a positive user id: a request with a user
\* id that is zero or negative creates no grant.
C21_PersistedUserIdPositive ==
    \A r \in reward_events : r.userId > 0

\* a request is received and rejected before the duplicate check in this step
RejectedAtValidate ==
    calls' = calls + 1 /\ call' = call

\* C22: a request rejected for out-of-range input (symbol empty or longer than
\* 20 characters, quantity above 10,000 or not positive) ends in the
\* validation outcome, status 400, and not in the internal-failure outcome,
\* status 500.
C22_ValidationIsNotInternalFailure ==
    [][RejectedAtValidate => response'.status = 400]_vars

\* the symbols of the requests that are made of uppercase letters only
UppercaseOnly ==
    {"RELIANCE", "TCS", LongSymbol}

\* C23: a request whose symbol is not made of uppercase letters only, such as
\* "reliance", is rejected and creates no grant.
C23_PersistedSymbolUppercase ==
    \A r \in reward_events : r.symbol \in UppercaseOnly

\* the base price the generator uses for a symbol, given its table
EffectiveBase(table, symbol) ==
    IF symbol \in DOMAIN table THEN table[symbol] ELSE DefaultBasePrice

\* C24: when saving a synthesized price fails, currentPrice returns the
\* synthesized price with no error, and the price samples and the base price
\* the generator uses for the symbol are as they were.
C24_SaveFailureIsSwallowed ==
    \A symbol \in {"RELIANCE", "TCS", "reliance"} :
        \A o \in GetCurrentPrice(symbol) :
            (o.generated /\ o.saved = 0) =>
                /\ o.ok
                /\ \E v \in Variations :
                     o.price = Round(Mul(EffectiveBase(basePrices, symbol),
                                         Add(Dec(1, 0), v)), 4)
                /\ o.history = price_history
                /\ o.seq = seq.price
                /\ \A other \in DOMAIN o.base \cup DOMAIN basePrices :
                     EffectiveBase(o.base, other) = EffectiveBase(basePrices, other)

\* C24 witness: a call was given a generated price, 3.333% above the base
\* price, whose save failed: the symbol has no sample and its base price is
\* the seed
C24_Witness ==
    /\ call["w1"].pc = "begin"
    /\ call["w1"].symbol = "RELIANCE"
    /\ call["w1"].saved = 0
    /\ call["w1"].pricePerShare = GeneratePrice(NewPriceGenerator["RELIANCE"], Dec(3333, 5))
    /\ price_history = {}
    /\ basePrices = NewPriceGenerator

\* C25: after the multiplier of a symbol in the stock configuration was
\* changed from 1 to m, the quantity portfolio(user) reports for the symbol
\* is m times the ledger holdings.
C25_PortfolioAppliesMultiplier ==
    (query.kind = "portfolio" /\ query.pc = "done" /\ ~query.err) =>
        \A i \in query.items :
            i.symbol \in DOMAIN stock_config =>
                i.quantity = Mul(stock_config[i.symbol], NetStock(query.userId, i.symbol))

\* the moves of a call from one program point to another that the order
\* Validate, CheckDuplicate, PriceLookup, Persist allows
OrderedMoves ==
    { <<"idle", "check">>, <<"check", "price">>, <<"check", "idle">>,
      <<"price", "begin">>, <<"price", "idle">>, <<"begin", "ledger">>,
      <<"begin", "idle">>, <<"ledger", "commit">>, <<"ledger", "idle">>,
      <<"commit", "idle">> }

\* C26: within a call the steps occur in the order Validate, CheckDuplicate,
\* PriceLookup, Persist: a price is looked up (and a sample synthesized) only
\* by a call that has passed validation and the duplicate check, the
\* transaction is opened only by a call that has obtained a price, and a
\* request rejected at Validate or CheckDuplicate has made no price lookup
\* and leaves the price samples as they were.
C26_StepsInOrder ==
    [][/\ \A p \in Procs :
            /\ call'[p].pc # call[p].pc => <<call[p].pc, call'[p].pc>> \in OrderedMoves
            /\ (call[p].txReward = None /\ call'[p].txReward # None) =>
                  /\ call[p].pc = "begin"
                  /\ call'[p].txReward.id > 0
            /\ (call[p].pc = "check" /\ call'[p].pc = "idle") =>
                  /\ price_history' = price_history
                  /\ basePrices' = basePrices
                  /\ call[p].saved = 0
                  /\ response'.written.prices = 0
       /\ (price_history' # price_history \/ basePrices' # basePrices) =>
             \E p \in Procs : call[p].pc = "price" /\ call'[p].pc # "price"
       /\ RejectedAtValidate =>
             /\ price_history' = price_history
             /\ basePrices' = basePrices
             /\ response'.written.prices = 0]_vars

\* C26 witness: a request was rejected as a duplicate at a time at which the
\* only sample of its symbol was too old to be returned, and no sample was
\* added
C26_Witness ==
    /\ response.err = DuplicateMessage
    /\ response.written.prices = 0
    /\ \A p \in Procs : call[p].pc = "idle"
    /\ Cardinality(price_history) = 1
    /\ \A h \in price_history : (now - h.timestamp) * TickHours > 2

\* no transaction of worker p is open: it holds no uncommitted row
NoOpenTransaction(p) ==
    call[p].txReward = None /\ call[p].txEntries = {}

\* C27: every call eventually returns, with the success outcome or an error,
\* and whenever a call has returned its transaction, if it had opened one,
\* is committed or rolled back: no transaction is open outside a call.
C27_CallsTerminateTransactionClosed ==
    /\ \A p \in Procs : (call[p].pc # "idle") ~> (call[p].pc = "idle")
    /\ [](\A p \in Procs : call[p].pc = "idle" => NoOpenTransaction(p))

\* C27 witness: a call whose commit failed has returned: its grant, to which
\* a primary key had been given, is not stored and no transaction is open
C27_Witness ==
    /\ response.err = "failed to commit transaction"
    /\ \A p \in Procs : call[p].pc = "idle" /\ call[p].txReward = None
    /\ seq.reward = 1
    /\ seq.ledger = 3
    /\ reward_events = {}
    /\ ledger_entries = {}

\* C28: CreateReward reports success only if the grant and its 3 ledger
\* entries were committed; a call in which a panic was recovered and the
\* transaction rolled back does not report success.
C28_SuccessMeansCommitted ==
    response.status = 200 =>
        /\ response.written.rewards = 1
        /\ response.written.entries = 3

\* a with the digits after the first places fractional digits dropped
Truncate(a, places) ==
    IF a.e <= places THEN a
    ELSE Norm([neg |-> a.neg,
               m   |-> IF Len(a.m) > a.e - places
                       THEN SubSeq(a.m, 1, Len(a.m) - (a.e - places)) ELSE <<>>,
               e   |-> places])

SameUserSymbol(r1, r2) ==
    r1.userId = r2.userId /\ r1.symbol = r2.symbol

\* the live grants are grants of request req (quantity rounded to 6 digits)
OnlyGrantOf(req) ==
    /\ \E g \in reward_events : ~g.deleted
    /\ \A g \in reward_events :
         ~g.deleted =>
            /\ g.userId = req.userId
            /\ g.symbol = req.symbol
            /\ g.timestamp = req.timestamp
            /\ g.quantity = Round(req.quantity, 6)

\* the call in progress is a call made with request req
CallOf(c, req) ==
    /\ c.pc # "idle"
    /\ c.userId = req.userId
    /\ c.symbol = req.symbol
    /\ c.timestamp = req.timestamp
    /\ c.quantity = Round(req.quantity, 6)

\* this step is the duplicate query of the call, and the query did not fail
DuplicateQueryAnswered ==
    /\ call["w1"].pc = "check"
    /\ call'["w1"].pc # "check"
    /\ ~(call'["w1"].pc = "idle" /\ response'.err = "failed to check for duplicates")

RejectedAsDuplicate ==
    /\ call'["w1"].pc = "idle"
    /\ response'.err = DuplicateMessage
    /\ response'.status = 409

\* C29 (as claimed): a request whose quantity differs from that of a live
\* grant of the same user, symbol and timestamp only beyond the 6th
\* fractional digit is rejected as a duplicate; one whose quantity differs
\* within 6 digits, or whose timestamp differs, is not.
C29_DuplicateBeyondSixDigits ==
    [][\A r1, r2 \in RecorderRequests :
         (/\ SameUserSymbol(r1, r2)
          /\ OnlyGrantOf(r1)
          /\ CallOf(call["w1"], r2)
          /\ DuplicateQueryAnswered)
         => (RejectedAsDuplicate <=>
                /\ r1.timestamp = r2.timestamp
                /\ Truncate(r1.quantity, 6) = Truncate(r2.quantity, 6))]_vars

\* C29 (amended): the quantity that a call checks and stores is the requested
\* quantity rounded to 6 fractional digits, half away from zero; a request is
\* rejected as a duplicate exactly when a live grant has its user, symbol and
\* timestamp and a quantity equal to its own after that rounding (2.5 and
\* 2.5000001), so 2.5 and 2.5000005, 2.5 and 2.500001, and equal quantities
\* with different timestamps are both granted.
C29_DuplicateIffRoundedEqual ==
    /\ [][(call["w1"].pc = "idle" /\ call'["w1"].pc # "idle") =>
             \E req \in RecorderRequests : CallOf(call'["w1"], req)]_vars
    /\ [][\A r1, r2 \in RecorderRequests :
             (/\ SameUserSymbol(r1, r2)
              /\ OnlyGrantOf(r1)
              /\ CallOf(call["w1"], r2)
              /\ DuplicateQueryAnswered)
             => (RejectedAsDuplicate <=>
                    /\ r1.timestamp = r2.timestamp
                    /\ Round(r1.quantity, 6) = Round(r2.quantity, 6))]_vars

\* C29 witness: after a grant of 2.5 and a second grant of 2.500001 for the
\* same user, symbol and timestamp were both stored
C29_Witness ==
    /\ response.status = 200
    /\ calls = 2
    /\ \E g, h \in reward_events :
         /\ g.timestamp = h.timestamp
         /\ g.quantity = Dec(25, 1)
         /\ h.quantity = Dec(2500001, 6)

\* the base price a symbol is seeded with at startup
SeedOf(symbol) ==
    IF symbol \in DOMAIN NewPriceGenerator THEN NewPriceGenerator[symbol]
    ELSE DefaultBasePrice

\* the samples of the symbol that were persisted last
LastPersisted(symbol) ==
    { h \in price_history :
        /\ h.symbol = symbol
        /\ \A g \in price_history : g.symbol = symbol => g.id <= h.id }

\* the base the claim gives to the next synthesized price of the symbol
AnchorOf(symbol) ==
    IF LastPersisted(symbol) = {} THEN {SeedOf(symbol)}
    ELSE { h.priceINR : h \in LastPersisted(symbol) }

\* C30: every synthesized price that is persisted for a symbol was generated
\* (within the variation, rounded to 4 decimals) from the most recently
\* persisted price of that symbol, whether the scheduler's refresh or a
\* request's price lookup persisted it, and from the startup seed only while
\* no price of the symbol is persisted.
C30_GeneratedFromLastPersisted ==
    [][\A h \in price_history' \ price_history :
         \E base \in AnchorOf(h.symbol), v \in Variations :
            h.priceINR = RoundINR(GeneratePrice(base, v))]_vars

\* C33: ledger entries are append-only: every entry stored before a step is
\* stored after it with the same grant, kind, symbol, quantity, amount and
\* timestamp; a reversal adds rows whose timestamp is the time of the
\* reversal and leaves the original rows and the grant as they were.
C33_LedgerAppendOnly ==
    [][/\ ledger_entries \subseteq ledger_entries'
       /\ reversals' = reversals + 1 =>
             /\ reward_events' = reward_events
             /\ \A e \in ledger_entries' \ ledger_entries :
                  /\ e.timestamp = now
                  /\ \E g \in reward_events : g.id = e.rewardEventId]_vars

\* C33 witness: a grant made at time 1 has been reversed at time 2: its
\* original rows carry time 1 and its reversal rows time 2
C33_Witness ==
    /\ now = 2
    /\ \E g \in reward_events :
         /\ g.timestamp = 1
         /\ Cardinality({ e \in EntriesOf(g.id) : e.timestamp = 1 }) = 3
         /\ Cardinality({ e \in EntriesOf(g.id) : e.timestamp = 2 }) = 3

\* the entries stored for grant g in a set of ledger rows
OwnedBy(rows, g) ==
    { e \in rows : e.rewardEventId = g.id }

PowersOfTwo ==
    { 1, 2, 4, 8, 16, 32 }

NothingReversedOrDeleted ==
    \A g \in reward_events :
        ~g.deleted /\ Cardinality(OwnedBy(ledger_entries, g)) = 3

\* the grants of a user for a symbol
GrantsOf(userId, symbol) ==
    { g \in reward_events : g.userId = userId /\ g.symbol = symbol }

\* holdings[symbol] as a Go map gives it: the zero decimal for an absent key
QuantityIn(holdings, symbol) ==
    IF symbol \in DOMAIN holdings THEN holdings[symbol] ELSE Zero

\* C37: while no reversal has been made and no grant is soft-deleted, the
\* holdings of every user show, for every symbol, the sum of the quantities
\* of the user's grants of that symbol (nothing for a symbol without a
\* grant), whatever calls succeeded or failed before.
C37_HoldingsAreGrantedQuantities ==
    NothingReversedOrDeleted =>
        \A u \in AskedUsers :
            LET holdings == GetUserStockHoldings(u)
            IN  /\ DOMAIN holdings \subseteq { s \in AskedSymbols : GrantsOf(u, s) # {} }
                /\ \A s \in AskedSymbols :
                     QuantityIn(holdings, s) = SumOf(GrantsOf(u, s), "quantity")

\* C37 witness: two grants of one symbol, 2.5 and 0.3333, are committed,
\* a later call has failed, and the holdings show 2.8333
C37_Witness ==
    /\ NothingReversedOrDeleted
    /\ Cardinality(reward_events) = 2
    /\ GetUserStockHoldings(1) = [s \in {"RELIANCE"} |-> Dec(28333, 4)]

\* the instants a holdings query is asked for
AskedInstants ==
    0 .. MaxTime

\* grant g has been reversed: it owns more than the entries created with it
Reversed(g) ==
    Cardinality(OwnedBy(ledger_entries, g)) > 3

\* the net STOCK quantity, as of t, of the live grants of the user of g
\* other than g itself
NetStockWithout(g, t) ==
    SumOf({ e \in ledger_entries :
              /\ e.entryType = "STOCK"
              /\ e.symbol = g.symbol
              /\ e.rewardEventId # g.id
              /\ \E r \in reward_events :
                   /\ r.id = e.rewardEventId
                   /\ r.userId = g.userId
                   /\ ~r.deleted
                   /\ r.timestamp <= t }, "quantity")

\* C34: holdingsAsOf(user, t) gives, for each symbol, the sum of the STOCK
\* quantities of the entries whose grant is live, belongs to the user and
\* has an event timestamp at or before t, and only the strictly positive
\* sums; the entry's own timestamp plays no part, so a reversed grant
\* contributes zero as of every t from its event timestamp on, instants
\* before the reversal included.
C34_HoldingsAsOfByGrantTime ==
    \A u \in AskedUsers, t \in AskedInstants :
        LET holdings == GetUserStockHoldingsUpToDate(u, t)
        IN  /\ DOMAIN holdings = HeldAsOf(u, t)
            /\ \A s \in DOMAIN holdings : holdings[s] = NetStockAsOf(u, s, t)
            /\ \A g \in reward_events :
                 (g.userId = u /\ Reversed(g) /\ g.timestamp <= t) =>
                     QuantityIn(holdings, g.symbol) =
                        (IF GreaterThan(NetStockWithout(g, t), Zero)
                         THEN NetStockWithout(g, t) ELSE Zero)

\* C34 witness: a grant with event timestamp 0 was reversed at time 2; as of
\* time 1, before the reversal was made, the user holds nothing of it
C34_Witness ==
    /\ now = 2
    /\ \E g \in reward_events :
         /\ g.timestamp = 0
         /\ g.userId = 1
         /\ GreaterThan(g.quantity, Zero)
         /\ Cardinality({ e \in OwnedBy(ledger_entries, g) : e.timestamp = 2 }) = 3
         /\ Cardinality({ e \in OwnedBy(ledger_entries, g) : e.timestamp = 0 }) = 3
         /\ g.symbol \notin DOMAIN GetUserStockHoldingsUpToDate(1, 1)

RECURSIVE SumOfValues(_)
\* the sum of the currentValue fields of portfolio items
SumOfValues(items) ==
    IF items = {} THEN Zero
    ELSE LET item == CHOOSE i \in items : TRUE
         IN  Add(item.currentValue, SumOfValues(items \ {item}))

\* C35: in the result of portfolio(user) the currentValue of each holding is
\* round4(currentPrice * quantity), and totalValue is the sum of the
\* currentValue fields of the returned holdings.
C35_TotalIsSumOfValues ==
    (query.kind = "portfolio" /\ query.pc = "done" /\ ~query.err) =>
        /\ \A item \in query.items :
             item.currentValue = Round(Mul(item.currentPrice, item.quantity), 4)
        /\ query.totalValue = SumOfValues(query.items)

\* the prices of the latest samples of a symbol that are at most 2 hours old
FreshPrices(symbol) ==
    { h.priceINR : h \in FreshLatest(symbol) }

\* C38: while the latest sample of a symbol is at most 2 hours old,
\* currentPrice(symbol) is a pure read: a lookup that succeeds returns the
\* price of that sample, so that two lookups return the same price, and the
\* lookup of a CreateReward call inserts no sample and leaves the base
\* prices as they were.
C38_FreshReadIsPure ==
    /\ [](\A symbol \in AskedSymbols :
            FreshLatest(symbol) # {} =>
               \A o1, o2 \in GetCurrentPrice(symbol) :
                  (o1.ok /\ o2.ok) =>
                     /\ o1.price = o2.price
                     /\ o1.price \in FreshPrices(symbol)
                     /\ o1.base = basePrices)
    /\ [][\A p \in Procs :
             (/\ call[p].pc = "price"
              /\ call'[p].pc # "price"
              /\ FreshLatest(call[p].symbol) # {})
             => /\ price_history' = price_history
                /\ basePrices' = basePrices
                /\ seq' = seq
                /\ call'[p].pc # "idle" =>
                      /\ call'[p].pricePerShare \in FreshPrices(call[p].symbol)
                      /\ call'[p].saved = 0]_vars

\* C38 witness: a call was given the price of the only sample of its symbol,
\* which was exactly 2 hours old, and has saved nothing
C38_Witness ==
    \E p \in Procs :
        /\ call[p].pc = "begin"
        /\ call[p].saved = 0
        /\ Cardinality(price_history) = 1
        /\ \A h \in price_history :
             /\ h.symbol = call[p].symbol
             /\ (now - h.timestamp) * TickHours = 2
             /\ h.priceINR = call[p].pricePerShare

\* this step is a run of the scheduler's refresh that stored something
RefreshStored ==
    call' = call /\ price_history' # price_history

\* the samples a step adds for a symbol
AddedSamples(symbol) ==
    { h \in price_history' \ price_history : h.symbol = symbol }

\* a CreateReward call commits in this step
Commits ==
    /\ call["w1"].pc = "commit"
    /\ call'["w1"].pc = "idle"
    /\ response'.status = 200

\* C32 (as claimed): refreshAll persists one new sample for every configured
\* symbol and has no other durable effect; a CreateReward that is in flight
\* next to it commits exactly one grant with 3 entries.
C32_RefreshStoresEverySymbol ==
    [][/\ RefreshStored =>
             /\ \A symbol \in DOMAIN schedulerBasePrices :
                  Cardinality(AddedSamples(symbol)) = 1
             /\ price_history \subseteq price_history'
             /\ reward_events' = reward_events
             /\ ledger_entries' = ledger_entries
       /\ Commits =>
             /\ Cardinality(reward_events' \ reward_events) = 1
             /\ Cardinality(ledger_entries' \ ledger_entries) = 3]_vars

\* C32 (amended): refreshAll generates a price for every configured symbol
\* and persists one new sample, timestamped now, for each symbol whose save
\* succeeds; a save that fails is logged and skipped. It has no other durable
\* effect: stored samples, grants and ledger entries stay as they are, and a
\* CreateReward that is in flight next to it commits exactly one grant
\* with 3 entries.
C32_RefreshOnlyAppendsSamples ==
    [][/\ RefreshStored =>
             /\ \A h \in price_history' \ price_history :
                  /\ h.symbol \in DOMAIN schedulerBasePrices
                  /\ h.timestamp = now
                  /\ \A g \in price_history : g.id < h.id
             /\ \A symbol \in DOMAIN schedulerBasePrices :
                  Cardinality(AddedSamples(symbol)) <= 1
             /\ price_history \subseteq price_history'
             /\ reward_events' = reward_events
             /\ ledger_entries' = ledger_entries
             /\ basePrices' = basePrices
       /\ Commits =>
             /\ Cardinality(reward_events' \ reward_events) = 1
             /\ Cardinality(ledger_entries' \ ledger_entries) = 3
             /\ price_history' = price_history]_vars

\* C32 witness: while a CreateReward call that saved the first sample was in
\* flight, a refresh stored a sample for each of the two symbols
C32_Witness ==
    /\ call["w1"].pc = "commit"
    /\ call["w1"].saved = 1
    /\ \E h \in price_history : h.id = 1 /\ h.symbol = call["w1"].symbol
    /\ \E h2, h3 \in price_history :
         /\ {h2.id, h3.id} = {2, 3}
         /\ {h2.symbol, h3.symbol} = DOMAIN schedulerBasePrices

\* C31: under any interleaving of the request path's price lookups and the
\* scheduler's refresh, a sample that is inserted has a timestamp no smaller
\* than that of every sample already stored for its symbol, and no stored
\* sample is changed or removed
C31_InsertedSamplesAreLatest ==
    [][/\ price_history \subseteq price_history'
       /\ \A h \in price_history' \ price_history :
             \A g \in price_history :
                g.symbol = h.symbol => g.timestamp <= h.timestamp]_vars

====
